---- MODULE Spec2Model ----
(***************************************************************************)
(* Model of the procedural dungeon generator (src/src/engine/              *)
(* dungeonBuilder.js) and of the door toggle of the input system           *)
(* (src/unnamed/part_010, systems/inputSystem.js).                         *)
(*                                                                         *)
(* One buildDungeon / buildDefault call is a state machine whose position  *)
(* is pc; the collections floor, blocked, doors, walls and rooms are the   *)
(* objects the call allocates and, after the return, the very objects the  *)
(* returned (shallowly frozen) result refers to.                           *)
(***************************************************************************)
EXTENDS Integers, Sequences, FiniteSets, TLC

VARIABLES
  world,      \* { w, h } handed to the DungeonBuilder constructor
  params,     \* the argument object of buildDungeon (levels and knobs)
  call,       \* which entry point runs: "computeRoomCount", "buildDungeon", "buildDefault"
  pc,         \* position inside the call
  roomCount,  \* const roomCount of buildDungeon / result of computeRoomCount
  rooms,      \* const rooms = []   (records with a doorKeys list)
  floor,      \* const floor = new Set()
  blocked,    \* const blocked = new Set()
  doors,      \* const doors = new Map()   key -> [open]
  walls,      \* const walls = []
  i,          \* loop index of the room loop and of the connect loop (0-based)
  a,          \* attempt counter of the inner placement loop
  first,      \* the size sampled for room[0]
  conn,       \* locals of the current connect iteration (door positions, start, goal)
  gaveUpAt,   \* index i at which the placement loop hit `break`, 0 if it did not
  tried,      \* number of placement attempts made for each room index
  returned,   \* the value of the buildDungeon result at the moment of its return
  dungeon,    \* the object handed to the caller (game.dungeon)
  rngState,   \* seed and state of the seeded random source (replay specification only)
  run,        \* number of the buildDungeon call (replay specification only)
  firstRun,   \* result of the first call (replay specification only)
  carved,     \* the tile keys carveTile was called with during the current call
  ret,        \* what the last call of a function other than the builder returned,
              \* and the locals of such a call while it runs
  player      \* the player entity of the game: col, row, z, state.movePath and
              \* state._moveStepTimer

vars == <<world, params, call, pc, roomCount, rooms, floor, blocked, doors,
          walls, i, a, first, conn, gaveUpAt, tried, returned, dungeon,
          rngState, run, firstRun, carved, ret, player>>

\* absent values: JavaScript null / undefined, one per type
NoKey == <<>>
NoTile == [col |-> -1, row |-> -1]
NoSize == [rw |-> 0, rh |-> 0]
NoResult == [rooms |-> <<>>]
NoRng == [seed |-> 0, s |-> 0]
NoRet == [of |-> ""]
NoPlayer == [col |-> -1, row |-> -1, z |-> 0, movePath |-> <<>>, timer |-> 0]

(***************************************************************************)
(* Bounds of the model.                                                    *)
(***************************************************************************)
MaxLevel == 6
MaxWorldW == 18
MaxRoomW == 3
MaxPad == 2
MaxAttempts == 2

(***************************************************************************)
(* JavaScript numbers.  A Number holding an integer beyond 32 bits is kept *)
(* as two limbs, value = hi * 2^16 + lo with 0 <= lo < 2^16, so that the   *)
(* ToInt32 conversion of `x | 0` is computed, not assumed.                 *)
(***************************************************************************)
Limb == 2^16

NumOf(n) == [hi |-> n \div Limb, lo |-> n % Limb]

NumAdd(x, y) ==
  [hi |-> x.hi + y.hi + ((x.lo + y.lo) \div Limb), lo |-> (x.lo + y.lo) % Limb]

NumLess(x, y) == x.hi < y.hi \/ (x.hi = y.hi /\ x.lo < y.lo)

NumMax(x, y) == IF NumLess(x, y) THEN y ELSE x

\* x | 0 : reduce modulo 2^32 into [-2^31, 2^31)
ToInt32(x) == (((x.hi + (Limb \div 2)) % Limb) - (Limb \div 2)) * Limb + x.lo

(***************************************************************************)
(* Helpers of dungeonBuilder.js                                            *)
(***************************************************************************)
keyOf(col, row, z) == <<col, row, z>>

parseKey(k) == [col |-> k[1], row |-> k[2], z |-> k[3]]

Min2(x, y) == IF x < y THEN x ELSE y
Max2(x, y) == IF x > y THEN x ELSE y
Abs(x) == IF x < 0 THEN -x ELSE x

clamp(n, lo, hi) == Max2(lo, Min2(hi, n))

inBounds(col, row, w) == col >= 0 /\ row >= 0 /\ col < w.w /\ row < w.h

\* rng() is u = k / RngRes with k in 0 .. RngRes-1
RngRes == 9
RngValues == 0 .. (RngRes - 1)

\* randInt with a second source of variation: the number of the call
randIntHidden(u, lo, hi) == lo + ((((u + run - 1) % RngRes) * (hi - lo + 1)) \div RngRes)

randInt(u, lo, hi) == lo + ((u * (hi - lo + 1)) \div RngRes)

\* every value randInt can return for some value of rng()
randIntValues(lo, hi) == { randInt(u, lo, hi) : u \in RngValues }

Dirs == <<"E", "W", "NE", "NW", "SE", "SW">>

neighborOddR(col, row, dir) ==
  LET odd == (row % 2) = 1 IN
  CASE dir = "E"  -> [col |-> col + 1, row |-> row]
    [] dir = "W"  -> [col |-> col - 1, row |-> row]
    [] dir = "NE" -> IF odd THEN [col |-> col + 1, row |-> row - 1]
                            ELSE [col |-> col, row |-> row - 1]
    [] dir = "NW" -> IF odd THEN [col |-> col, row |-> row - 1]
                            ELSE [col |-> col - 1, row |-> row - 1]
    [] dir = "SE" -> IF odd THEN [col |-> col + 1, row |-> row + 1]
                            ELSE [col |-> col, row |-> row + 1]
    [] dir = "SW" -> IF odd THEN [col |-> col, row |-> row + 1]
                            ELSE [col |-> col - 1, row |-> row + 1]
    [] OTHER      -> [col |-> col, row |-> row]

baseRoomsFromDelta(delta) ==
  IF delta <= -4 THEN 3
  ELSE IF delta = -3 THEN 4
  ELSE IF delta = -2 THEN 4
  ELSE IF delta = -1 THEN 5
  ELSE 5

RECURSIVE LeastCeil(_, _, _)
\* least n in lo .. hi with 400 n^2 >= 729 delta, i.e. n >= 1.35 * sqrt(delta),
\* by bisection (hi satisfies it)
LeastCeil(delta, lo, hi) ==
  IF lo >= hi THEN hi
  ELSE LET mid == (lo + hi) \div 2
       IN IF 400 * mid * mid >= 729 * delta
          THEN LeastCeil(delta, lo, mid)
          ELSE LeastCeil(delta, mid + 1, hi)

RECURSIVE Pow2Floor(_, _)
\* largest power of two p * 2^j that is <= n
Pow2Floor(n, p) == IF 2 * p <= n THEN Pow2Floor(n, 2 * p) ELSE p

\* Math.ceil(1.35 * Math.sqrt(delta)) in IEEE-754 doubles, for 1 <= delta <= 500000
\* (the ceiling is then at most 1000).
\* The double nearest 1.35 exceeds 1.35 by 0.4 * 2^-52.  When 1.35*sqrt(delta)
\* is not an integer it is further than 2^-41 (relative) from one and the
\* rounding cannot move the ceiling.  When it is the integer n (delta = 400 j^2,
\* sqrt exact), the product is n + 0.2963 n 2^-52 and rounds to the next
\* double above n, making the ceiling n + 1, exactly when n / 2^e > 27/16
\* for 2^e <= n < 2^(e+1) (a tie rounds to the even mantissa, which is n).
deltaBonus(delta) ==
  LET n == LeastCeil(delta, 0, 1 + Min2(delta, 1000)) IN
  IF 400 * n * n = 729 * delta /\ 16 * n > 27 * Pow2Floor(n, 1) THEN n + 1 ELSE n

\* the minimum of 3 is applied to the Number, the final `| 0` to its result
computeRoomCount(playerLevel, monsterLevel, difficultyLevel) ==
  LET delta == ToInt32(NumOf(playerLevel)) - ToInt32(NumOf(monsterLevel))
      base == baseRoomsFromDelta(delta)
      dl == NumOf(ToInt32(NumOf(difficultyLevel)))
      difficultyRooms == NumAdd(dl, dl)
      rooms0 == NumAdd(NumOf(base), difficultyRooms)
      rooms1 == IF delta >= 1 THEN NumAdd(rooms0, NumOf(deltaBonus(delta))) ELSE rooms0
      rooms2 == NumMax(NumOf(3), rooms1)
  IN ToInt32(rooms2)

\* rectsOverlap that forgets to inflate by pad
rectsOverlapNoPad(ra, rb, pad) ==
  ~ (\/ ra.right < rb.left
     \/ ra.left > rb.right
     \/ ra.bottom < rb.top
     \/ ra.top > rb.bottom)

rectsOverlap(ra, rb, pad) ==
  ~ (\/ ra.right + pad < rb.left
     \/ ra.left - pad > rb.right
     \/ ra.bottom + pad < rb.top
     \/ ra.top - pad > rb.bottom)

rectCenter(r) ==
  [col |-> (r.left + r.right) \div 2, row |-> (r.top + r.bottom) \div 2]

rectContains(r, col, row) ==
  col >= r.left /\ col <= r.right /\ row >= r.top /\ row <= r.bottom

(***************************************************************************)
(* bfsPath: the corridor search.  blockedSet is accepted and never read.   *)
(* The result is [found, path]; found = FALSE stands for `return null`.    *)
(*                                                                         *)
(* visited and parent are keyed by tile key.  Only keys of in-bounds tiles *)
(* are ever added to them (besides startK in visited, which no in-bounds   *)
(* neighbour equals when start lies outside), so both are kept as arrays   *)
(* over the grid, indexed by SlotOf(key): visited[slot] is membership,     *)
(* parent[slot] is the stored parent key, NoKey when the key is absent.    *)
(***************************************************************************)
SlotOf(k, w) == k[2] * w.w + k[1] + 1

HasParent(parent, k, w) == inBounds(k[1], k[2], w) /\ parent[SlotOf(k, w)] # NoKey

RECURSIVE BfsExpandNoParent(_, _, _, _, _)
\* the direction loop without `parent.set(nk, keyOf(cur))`
BfsExpandNoParent(w, st, cur, d, z) ==
  IF d > Len(Dirs) THEN st
  ELSE
    LET n == neighborOddR(cur.col, cur.row, Dirs[d])
        nk == keyOf(n.col, n.row, z)
    IN IF ~inBounds(n.col, n.row, w) THEN BfsExpandNoParent(w, st, cur, d + 1, z)
       ELSE IF st.visited[SlotOf(nk, w)] THEN BfsExpandNoParent(w, st, cur, d + 1, z)
       ELSE BfsExpandNoParent(w,
                              [q |-> Append(st.q, [col |-> n.col, row |-> n.row]),
                               visited |-> [st.visited EXCEPT ![SlotOf(nk, w)] = TRUE],
                               parent |-> st.parent,
                               found |-> st.found],
                              cur, d + 1, z)

RECURSIVE BfsExpandNoVisited(_, _, _, _, _)
\* the direction loop without `visited.add(nk)`
BfsExpandNoVisited(w, st, cur, d, z) ==
  IF d > Len(Dirs) THEN st
  ELSE
    LET n == neighborOddR(cur.col, cur.row, Dirs[d])
        nk == keyOf(n.col, n.row, z)
        ck == keyOf(cur.col, cur.row, z)
    IN IF ~inBounds(n.col, n.row, w) THEN BfsExpandNoVisited(w, st, cur, d + 1, z)
       ELSE IF st.visited[SlotOf(nk, w)] THEN BfsExpandNoVisited(w, st, cur, d + 1, z)
       ELSE BfsExpandNoVisited(w,
                               [q |-> Append(st.q, [col |-> n.col, row |-> n.row]),
                                visited |-> st.visited,
                                parent |-> [st.parent EXCEPT ![SlotOf(nk, w)] = ck],
                                found |-> st.found],
                               cur, d + 1, z)

RECURSIVE BfsExpand(_, _, _, _, _)
\* the `for (const dir of dirs)` loop body for directions d .. 6
BfsExpand(w, st, cur, d, z) ==
  IF d > Len(Dirs) THEN st
  ELSE
    LET n == neighborOddR(cur.col, cur.row, Dirs[d])
        nk == keyOf(n.col, n.row, z)
        ck == keyOf(cur.col, cur.row, z)
    IN IF ~inBounds(n.col, n.row, w) THEN BfsExpand(w, st, cur, d + 1, z)
       ELSE IF st.visited[SlotOf(nk, w)] THEN BfsExpand(w, st, cur, d + 1, z)
       ELSE BfsExpand(w,
                      [q |-> Append(st.q, [col |-> n.col, row |-> n.row]),
                       visited |-> [st.visited EXCEPT ![SlotOf(nk, w)] = TRUE],
                       parent |-> [st.parent EXCEPT ![SlotOf(nk, w)] = ck],
                       found |-> st.found],
                      cur, d + 1, z)

\* the loop body with `q.pop()` in place of `q.shift()`: the newest tile first
BfsVisitNewest(w, st, goalK, z) ==
  LET cur == st.q[Len(st.q)]
      rest == [st EXCEPT !.q = SubSeq(st.q, 1, Len(st.q) - 1)]
  IN IF keyOf(cur.col, cur.row, z) = goalK THEN [rest EXCEPT !.found = TRUE]
     ELSE BfsExpand(w, rest, cur, 1, z)

\* one iteration of `while (q.length)`: shift cur, `break` at the goal
\* (st.found), else run the direction loop
BfsVisit(w, st, goalK, z) ==
  LET cur == Head(st.q)
      rest == [st EXCEPT !.q = Tail(st.q)]
  IN IF keyOf(cur.col, cur.row, z) = goalK THEN [rest EXCEPT !.found = TRUE]
     ELSE BfsExpand(w, rest, cur, 1, z)

RECURSIVE BfsLoop(_, _, _, _, _)
\* up to n iterations of `while (q.length)`, taken as the first half of them
\* and then the rest; the loop is over when the queue is empty or the goal
\* was shifted
BfsLoop(w, st, n, goalK, z) ==
  IF st.found \/ st.q = <<>> THEN st
  ELSE IF n <= 1 THEN BfsVisit(w, st, goalK, z)
  ELSE LET half == BfsLoop(w, st, n \div 2, goalK, z)
       IN IF half.found \/ half.q = <<>> THEN half
          ELSE BfsLoop(w, half, n - (n \div 2), goalK, z)

RECURSIVE BfsWalk(_, _, _, _)
\* `while (k && k !== startK)`: goal first, then its ancestors
BfsWalk(k, parent, startK, w) ==
  IF k = NoKey \/ k = startK THEN <<>>
  ELSE LET t == parseKey(k)
           up == IF HasParent(parent, k, w) THEN parent[SlotOf(k, w)] ELSE NoKey
       IN <<[col |-> t.col, row |-> t.row]>> \o BfsWalk(up, parent, startK, w)

Reverse(s) == [j \in 1 .. Len(s) |-> s[Len(s) + 1 - j]]

bfsPath(w, start, goal, blockedSet, z) ==
  LET startK == keyOf(start.col, start.row, z)
      goalK == keyOf(goal.col, goal.row, z)
      startSlot == IF inBounds(start.col, start.row, w) THEN SlotOf(startK, w) ELSE 0
      \* every tile is queued at most once, start itself once more
      parent == BfsLoop(w,
                        [q |-> <<[col |-> start.col, row |-> start.row]>>,
                         visited |-> [j \in 1 .. (w.w * w.h) |-> j = startSlot],
                         parent |-> [j \in 1 .. (w.w * w.h) |-> NoKey],
                         found |-> FALSE],
                        w.w * w.h + 1, goalK, z).parent
  IN IF ~HasParent(parent, goalK, w) /\ goalK # startK
     THEN [found |-> FALSE, path |-> <<>>]
     ELSE [found |-> TRUE, path |-> Reverse(BfsWalk(goalK, parent, startK, w))]

(***************************************************************************)
(* Closures of buildDungeon                                                *)
(***************************************************************************)
margin == 2

\* tiles stampRoom adds to floor
StampFloor(r, w, z) ==
  { k \in { keyOf(col, row, z) : col \in (r.left + 1) .. (r.right - 1),
                                  row \in (r.top + 1) .. (r.bottom - 1) } :
      inBounds(k[1], k[2], w) }

\* tiles stampRoom adds to blocked
StampBlocked(r, w, z) ==
  { k \in { keyOf(col, row, z) : col \in r.left .. r.right, row \in r.top .. r.bottom } :
      /\ inBounds(k[1], k[2], w)
      /\ (k[2] = r.top \/ k[2] = r.bottom \/ k[1] = r.left \/ k[1] = r.right) }

\* tryPlaceRoomAtCenter that requires the room in bounds, without the margin
tryPlaceRoomAtCenterNoMargin(col, row, rw, rh, w) ==
  LET left == col - (rw \div 2)
      right == left + rw - 1
      top == row - (rh \div 2)
      bottom == top + rh - 1
  IN IF left < 0 \/ top < 0 \/ right >= w.w \/ bottom >= w.h
     THEN {}
     ELSE {[left |-> left, right |-> right, top |-> top, bottom |-> bottom,
            doorKeys |-> <<>>]}

\* tryPlaceRoomAtCenter with the left margin test off by one
tryPlaceRoomAtCenterTight(col, row, rw, rh, w) ==
  LET left == col - (rw \div 2)
      right == left + rw - 1
      top == row - (rh \div 2)
      bottom == top + rh - 1
  IN IF left <= margin \/ top < margin \/ right >= w.w - margin \/ bottom >= w.h - margin
     THEN {}
     ELSE {[left |-> left, right |-> right, top |-> top, bottom |-> bottom,
            doorKeys |-> <<>>]}

\* the result is a set: empty for `return null`, else the one room
tryPlaceRoomAtCenter(col, row, rw, rh, w) ==
  LET left == col - (rw \div 2)
      right == left + rw - 1
      top == row - (rh \div 2)
      bottom == top + rh - 1
  IN IF left < margin \/ top < margin \/ right >= w.w - margin \/ bottom >= w.h - margin
     THEN {}
     ELSE {[left |-> left, right |-> right, top |-> top, bottom |-> bottom,
            doorKeys |-> <<>>]}

\* pickPerimeterDoorToward that clamps to the whole wall, corners included
pickPerimeterDoorTowardCorner(r, targetCol, targetRow) ==
  LET c == rectCenter(r)
      dc == targetCol - c.col
      dr == targetRow - c.row
  IN IF Abs(dc) >= Abs(dr)
     THEN IF dc >= 0
          THEN [col |-> r.right, row |-> clamp(targetRow, r.top, r.bottom)]
          ELSE [col |-> r.left, row |-> clamp(targetRow, r.top, r.bottom)]
     ELSE IF dr >= 0
          THEN [col |-> clamp(targetCol, r.left, r.right), row |-> r.bottom]
          ELSE [col |-> clamp(targetCol, r.left, r.right), row |-> r.top]

pickPerimeterDoorToward(r, targetCol, targetRow) ==
  LET c == rectCenter(r)
      dc == targetCol - c.col
      dr == targetRow - c.row
  IN IF Abs(dc) >= Abs(dr)
     THEN IF dc >= 0
          THEN [col |-> r.right, row |-> clamp(targetRow, r.top + 1, r.bottom - 1)]
          ELSE [col |-> r.left, row |-> clamp(targetRow, r.top + 1, r.bottom - 1)]
     ELSE IF dr >= 0
          THEN [col |-> clamp(targetCol, r.left + 1, r.right - 1), row |-> r.bottom]
          ELSE [col |-> clamp(targetCol, r.left + 1, r.right - 1), row |-> r.top]

\* stepOut with the signs exchanged: one step toward the interior
stepOutInward(r, doorPos) ==
  IF doorPos.row = r.top THEN [col |-> doorPos.col, row |-> doorPos.row + 1]
  ELSE IF doorPos.row = r.bottom THEN [col |-> doorPos.col, row |-> doorPos.row - 1]
  ELSE IF doorPos.col = r.left THEN [col |-> doorPos.col + 1, row |-> doorPos.row]
  ELSE IF doorPos.col = r.right THEN [col |-> doorPos.col - 1, row |-> doorPos.row]
  ELSE [col |-> doorPos.col, row |-> doorPos.row]

stepOut(r, doorPos) ==
  IF doorPos.row = r.top THEN [col |-> doorPos.col, row |-> doorPos.row - 1]
  ELSE IF doorPos.row = r.bottom THEN [col |-> doorPos.col, row |-> doorPos.row + 1]
  ELSE IF doorPos.col = r.left THEN [col |-> doorPos.col - 1, row |-> doorPos.row]
  ELSE IF doorPos.col = r.right THEN [col |-> doorPos.col + 1, row |-> doorPos.row]
  ELSE [col |-> doorPos.col, row |-> doorPos.row]

RECURSIVE Hop(_, _, _)
\* `for (s = 0; s < dist; s++) candidate = neighborOddR(candidate, dir)`; a
\* direction that leaves the tile in place leaves it in place dist times
Hop(c, dir, dist) ==
  IF dist <= 0 THEN c
  ELSE LET n == neighborOddR(c.col, c.row, dir)
       IN IF n = c THEN c ELSE Hop(n, dir, dist - 1)

SeqToSet(s) == { s[j] : j \in 1 .. Len(s) }

\* the keys of a list of {col,row} tiles
PathKeys(path, z) == { keyOf(path[j].col, path[j].row, z) : j \in 1 .. Len(path) }

RECURSIVE EdgeSegs(_, _, _, _, _, _, _)
\* one edge loop of rebuildWallSegmentsForRoom: unit edges from (c,r) in steps
\* of (dc,dr), n of them, skipping those with an endpoint in doorSet or out of bounds
EdgeSegs(c, r, dc, dr, n, doorSet, wz) ==
  IF n <= 0 THEN <<>>
  ELSE
    LET ka == keyOf(c, r, wz.z)
        kb == keyOf(c + dc, r + dr, wz.z)
        skip == \/ ka \in doorSet \/ kb \in doorSet
                \/ ~inBounds(c, r, wz.w) \/ ~inBounds(c + dc, r + dr, wz.w)
        seg == [from |-> [col |-> c, row |-> r, z |-> wz.z],
                to |-> [col |-> c + dc, row |-> r + dr, z |-> wz.z]]
    IN (IF skip THEN <<>> ELSE <<seg>>)
       \o EdgeSegs(c + dc, r + dr, dc, dr, n - 1, doorSet, wz)

rebuildWallSegmentsForRoom(r, doorKeys, w, z) ==
  LET doorSet == SeqToSet(doorKeys)
      wz == [w |-> w, z |-> z]
  IN EdgeSegs(r.left, r.top, 1, 0, r.right - r.left, doorSet, wz)
     \o EdgeSegs(r.left, r.bottom, 1, 0, r.right - r.left, doorSet, wz)
     \o EdgeSegs(r.left, r.top, 0, 1, r.bottom - r.top, doorSet, wz)
     \o EdgeSegs(r.right, r.top, 0, 1, r.bottom - r.top, doorSet, wz)

RECURSIVE AllWalls(_, _, _, _)
\* `for (const r of rooms) rebuildWallSegmentsForRoom(r, r.doorKeys)`
AllWalls(rs, j, w, z) ==
  IF j > Len(rs) THEN <<>>
  ELSE rebuildWallSegmentsForRoom(rs[j], rs[j].doorKeys, w, z) \o AllWalls(rs, j + 1, w, z)

(***************************************************************************)
(* Inputs: worlds, levels and knobs                                        *)
(***************************************************************************)
\* difficulty levels at which (difficultyLevel | 0) * 2 + base leaves 32 bits
HugeDifficulty == { 2^30 - 3, 2^30 - 2, 2^30 }

\* a player level with delta = 400 * 9^2 against monster level 1
HugeLevel == 400 * 81 + 1

\* the smallest grid of the data model, and grids with room for three small
\* rooms side by side or on a diagonal
MinWorld == [w |-> 15, h |-> 15]

\* a grid wide enough for a third small room between the first two, and for
\* two rooms of the default sizes side by side
WideWorld == [w |-> 29, h |-> 15]

\* a grid with room for three small rooms in a row; the movement queries run
\* on dungeons built on it
MoveWorld == [w |-> 18, h |-> 19]

Worlds == {MinWorld, WideWorld} \cup [w : 18 .. MaxWorldW, h : {19}]

\* the documented defaults of buildDungeon
DefaultKnobs ==
  [roomMinW |-> 7, roomMaxW |-> 11, roomMinH |-> 5, roomMaxH |-> 9,
   roomPad |-> 2, maxRoomAttempts |-> 80]

SmallKnobs ==
  [roomMinW : {3}, roomMaxW : {MaxRoomW},
   roomMinH : {3}, roomMaxH : {3},
   roomPad : {0, MaxPad}, maxRoomAttempts : {MaxAttempts}]

\* rooms that do not always fit the smallest grid
LargeKnobs ==
  [roomMinW |-> 11, roomMaxW |-> 12, roomMinH |-> 9, roomMaxH |-> 10,
   roomPad |-> 2, maxRoomAttempts |-> MaxAttempts]

\* rooms one tile wide: a perimeter with no interior
ThinKnobs ==
  [roomMinW |-> 1, roomMaxW |-> 1, roomMinH |-> 3, roomMaxH |-> 3,
   roomPad |-> 2, maxRoomAttempts |-> MaxAttempts]

\* delta = -4 asks for three rooms; the last level overflows 32 bits
Levels ==
  { [playerLevel |-> 1, monsterLevel |-> 5, difficultyLevel |-> 0],
    [playerLevel |-> 1, monsterLevel |-> 1, difficultyLevel |-> 2^30] }

WithKnobs(lv, k) ==
  [playerLevel |-> lv.playerLevel, monsterLevel |-> lv.monsterLevel,
   difficultyLevel |-> lv.difficultyLevel, z |-> 0,
   roomMinW |-> k.roomMinW, roomMaxW |-> k.roomMaxW,
   roomMinH |-> k.roomMinH, roomMaxH |-> k.roomMaxH,
   roomPad |-> k.roomPad, maxRoomAttempts |-> k.maxRoomAttempts]

ParamSets ==
  { WithKnobs(lv, k) : lv \in Levels, k \in SmallKnobs }
  \cup { WithKnobs(lv, [DefaultKnobs EXCEPT !.maxRoomAttempts = MaxAttempts]) : lv \in Levels }
  \cup { WithKnobs(lv, LargeKnobs) : lv \in Levels }
  \cup { WithKnobs(lv, ThinKnobs) : lv \in Levels }

\* the knob sets a grid is built with: small rooms on every grid, the default
\* sizes on the two grids where one and two such rooms fit, the large rooms on
\* the smallest grid, the thin rooms on the smallest grid and on one with room
\* for three of them
BuiltWith(w, p) ==
  \/ p.roomMinW = 3
  \/ p.roomMinW = DefaultKnobs.roomMinW /\ w \in {MinWorld, WideWorld}
  \/ p.roomMinW = LargeKnobs.roomMinW /\ w = MinWorld
  \/ p.roomMinW = ThinKnobs.roomMinW /\ w \in {MinWorld, MoveWorld}

NoConn == [aDoorPos |-> NoTile, bDoorPos |-> NoTile, start |-> NoTile, goal |-> NoTile]

\* the state of a builder on which no call has run yet
Idle ==
  /\ pc = "start"
  /\ roomCount = 0
  /\ rooms = <<>>
  /\ floor = {}
  /\ blocked = {}
  /\ doors = <<>>
  /\ walls = <<>>
  /\ i = 0
  /\ a = 0
  /\ first = NoSize
  /\ conn = NoConn
  /\ gaveUpAt = 0
  /\ tried = {}
  /\ returned = NoResult
  /\ dungeon = NoResult

Init ==
  /\ call = "buildDungeon"
  /\ world \in Worlds
  /\ params \in ParamSets
  /\ BuiltWith(world, params)
  /\ Idle
  /\ rngState = NoRng
  /\ run = 1
  /\ firstRun = NoResult
  /\ carved = {}
  /\ ret = NoRet
  /\ player = NoPlayer

(***************************************************************************)
(* buildDungeon, step by step                                              *)
(***************************************************************************)
Building == call \in {"buildDungeon", "buildDefault"}

\* entry, the fresh collections, and the room[0] block: sample a size, place
\* it on the centre of the grid or throw
PlaceFirstWith(rw, rh) ==
  LET centerCol == (world.w - 1) \div 2
      centerRow == (world.h - 1) \div 2
      placed == tryPlaceRoomAtCenter(centerCol, centerRow, rw, rh, world)
      r0 == CHOOSE r \in placed : TRUE
  IN /\ Building
     /\ pc = "start"
     /\ roomCount' = computeRoomCount(params.playerLevel, params.monsterLevel,
                                      params.difficultyLevel)
     /\ first' = [rw |-> rw, rh |-> rh]
     /\ walls' = <<>>
     /\ doors' = <<>>
     /\ i' = 1
     /\ a' = 0
     /\ carved' = {}
     /\ IF placed = {}
        THEN /\ pc' = "failed"
             /\ rooms' = <<>>
             /\ floor' = {}
             /\ blocked' = {}
        ELSE /\ pc' = "rooms"
             /\ rooms' = <<r0>>
             /\ floor' = StampFloor(r0, world, params.z)
             /\ blocked' = StampBlocked(r0, world, params.z)
     /\ UNCHANGED <<player, world, params, call, conn, gaveUpAt, tried, returned, dungeon,
                    run, firstRun, ret>>

PlaceFirstRoom ==
  /\ \E rw \in randIntValues(params.roomMinW, params.roomMaxW),
        rh \in randIntValues(params.roomMinH, params.roomMaxH) :
       PlaceFirstWith(rw, rh)
  /\ UNCHANGED rngState

\* TRUE when the candidate is rejected by the overlap loop
OverlapsAny(rr, rs, pad) == \E j \in 1 .. Len(rs) : rectsOverlap(rr, rs[j], pad)

\* one iteration of the attempt loop `for (a = 0; a < maxRoomAttempts; a++)`
AttemptWith(rw, rh, dist, angleBucket) ==
  LET prevC == rectCenter(rooms[i])
      dir == Dirs[angleBucket + 1]
      candidate == Hop(prevC, dir, dist)
      placed == tryPlaceRoomAtCenter(candidate.col, candidate.row, rw, rh, world)
      rr == CHOOSE r \in placed : TRUE
      rejected == placed = {} \/ OverlapsAny(rr, rooms, params.roomPad)
  IN /\ Building
     /\ pc = "rooms"
     /\ i < roomCount
     /\ a < params.maxRoomAttempts
     /\ tried' = tried \cup {i}
     /\ IF rejected
        THEN /\ a' = a + 1
             /\ UNCHANGED <<rooms, floor, blocked, i>>
        ELSE /\ rooms' = Append(rooms, rr)
             /\ floor' = floor \cup StampFloor(rr, world, params.z)
             /\ blocked' = blocked \cup StampBlocked(rr, world, params.z)
             /\ i' = i + 1
             /\ a' = 0
     /\ UNCHANGED <<player, world, params, call, pc, roomCount, doors, walls, first, conn,
                    gaveUpAt, returned, dungeon, run, firstRun,
                    carved, ret>>

PlaceAttempt ==
  /\ \E rw \in randIntValues(params.roomMinW, params.roomMaxW),
        rh \in randIntValues(params.roomMinH, params.roomMaxH),
        dist \in randIntValues(6, 14),
        angleBucket \in randIntValues(0, 5) :
       AttemptWith(rw, rh, dist, angleBucket)
  /\ UNCHANGED rngState

\* the room loop is left: either i reached roomCount, or the attempt budget
\* of room i is spent and `if (!placed) break;` runs
LeaveRoomLoop ==
  /\ Building
  /\ pc = "rooms"
  /\ i >= roomCount \/ a >= params.maxRoomAttempts
  /\ gaveUpAt' = IF i < roomCount THEN i ELSE gaveUpAt
  /\ pc' = "connect"
  /\ i' = 1
  /\ a' = 0
  /\ UNCHANGED <<player, world, params, call, roomCount, rooms, floor, blocked, doors, walls,
                 first, conn, tried, returned, dungeon, rngState, run, firstRun,
                 carved, ret>>

\* doors.set(k, {open}) and the blocked update of addDoorTile
addDoorTileDoors(ds, k, open) == (k :> [open |-> open]) @@ ds
addDoorTileBlocked(bs, k, open) == IF open THEN bs \ {k} ELSE bs \cup {k}

\* connect iteration, first part: pick both door tiles, register them closed,
\* push the keys on the rooms' doorKeys, compute the step-out points
ConnectDoors ==
  LET ra == rooms[i]
      rb == rooms[i + 1]
      ac == rectCenter(ra)
      bc == rectCenter(rb)
      aDoorPos == pickPerimeterDoorToward(ra, bc.col, bc.row)
      bDoorPos == pickPerimeterDoorToward(rb, ac.col, ac.row)
      aDoorKey == keyOf(aDoorPos.col, aDoorPos.row, params.z)
      bDoorKey == keyOf(bDoorPos.col, bDoorPos.row, params.z)
  IN /\ Building
     /\ pc = "connect"
     /\ i < Len(rooms)
     /\ doors' = addDoorTileDoors(addDoorTileDoors(doors, aDoorKey, FALSE), bDoorKey, FALSE)
     /\ blocked' = addDoorTileBlocked(addDoorTileBlocked(blocked, aDoorKey, FALSE),
                                      bDoorKey, FALSE)
     /\ rooms' = [rooms EXCEPT ![i].doorKeys = Append(@, aDoorKey),
                               ![i + 1].doorKeys = Append(@, bDoorKey)]
     /\ conn' = [aDoorPos |-> aDoorPos, bDoorPos |-> bDoorPos,
                 start |-> stepOut(ra, aDoorPos), goal |-> stepOut(rb, bDoorPos)]
     /\ pc' = "stepout"
     /\ UNCHANGED <<player, world, params, call, roomCount, floor, walls, i, a, first,
                    gaveUpAt, tried, returned, dungeon, rngState, run, firstRun,
                    carved, ret>>

\* carveTile over a set of keys: floor.add(k) and blocked.delete(k) for each
carveTileFloor(fs, ks) == fs \cup ks

\* carveTile that leaves the blocked set alone
carveTileBlockedKept(bs, ks) == bs

carveTileBlocked(bs, ks) == bs \ ks

\* tiles handed to carveTile for the two step-out points
StepOutKeys(c, w, z) ==
  { keyOf(t.col, t.row, z) : t \in { u \in {c.start, c.goal} : inBounds(u.col, u.row, w) } }

\* connect iteration, second part: carve the two step-out tiles
ConnectStepOut ==
  LET ks == StepOutKeys(conn, world, params.z)
  IN /\ Building
     /\ pc = "stepout"
     /\ floor' = carveTileFloor(floor, ks)
     /\ blocked' = carveTileBlocked(blocked, ks)
     /\ carved' = carved \cup ks
     /\ pc' = "path"
     /\ UNCHANGED <<player, world, params, call, roomCount, rooms, doors, walls, i, a, first,
                    conn, gaveUpAt, tried, returned, dungeon, rngState, run, firstRun,
                    ret>>

\* tiles carveCorridor carves for a search result
CarveKeys(res, z) == IF res.found THEN PathKeys(res.path, z) ELSE {}

\* connect iteration, last part: search and carve the corridor
ConnectPath ==
  LET path == bfsPath(world, conn.start, conn.goal, blocked, params.z)
      ks == CarveKeys(path, params.z)
  IN /\ Building
     /\ pc = "path"
     /\ floor' = carveTileFloor(floor, ks)
     /\ blocked' = carveTileBlocked(blocked, ks)
     /\ carved' = carved \cup ks
     /\ i' = i + 1
     /\ pc' = "connect"
     /\ UNCHANGED <<player, world, params, call, roomCount, rooms, doors, walls, a, first,
                    conn, gaveUpAt, tried, returned, dungeon, rngState, run, firstRun,
                    ret>>

\* the connect loop ends; wall segments are rebuilt for every room
BuildWalls ==
  /\ Building
  /\ pc = "connect"
  /\ i >= Len(rooms)
  /\ walls' = walls \o AllWalls(rooms, 1, world, params.z)
  /\ pc' = "spawn"
  /\ UNCHANGED <<player, world, params, call, roomCount, rooms, floor, blocked, doors, i, a,
                 first, conn, gaveUpAt, tried, returned, dungeon, rngState, run,
                 firstRun,
                 carved, ret>>

\* the returned object with the spawn on the corner of room 0
ResultSpawnCorner ==
  [rooms |-> rooms,
   spawn |-> [col |-> clamp(rooms[1].left, 0, world.w - 1),
              row |-> clamp(rooms[1].top, 0, world.h - 1),
              z |-> params.z],
   floor |-> floor, blocked |-> blocked, doors |-> doors, walls |-> walls]

\* the frozen result object: rooms are copied, the four collections are the
\* builder's own objects
Result ==
  [rooms |-> rooms,
   spawn |-> [col |-> clamp(rooms[1].left + 2, 0, world.w - 1),
              row |-> clamp(rooms[1].top + 2, 0, world.h - 1),
              z |-> params.z],
   floor |-> floor, blocked |-> blocked, doors |-> doors, walls |-> walls]

\* spawn and `return Object.freeze({...})`
Return ==
  /\ Building
  /\ pc = "spawn"
  /\ returned' = Result
  /\ IF call = "buildDefault"
     THEN /\ pc' = "wrap"
          /\ UNCHANGED dungeon
     ELSE /\ pc' = "done"
          /\ dungeon' = [Result EXCEPT !.rooms = Result.rooms] @@ [shared |-> TRUE]
  /\ UNCHANGED <<player, world, params, call, roomCount, rooms, floor, blocked, doors, walls,
                 i, a, first, conn, gaveUpAt, tried, rngState, run, firstRun,
                 carved, ret>>

(***************************************************************************)
(* buildDefault: the single-room wrapper around buildDungeon               *)
(***************************************************************************)
DefaultCallParams ==
  [playerLevel |-> 1, monsterLevel |-> 1, difficultyLevel |-> 0, z |-> 0,
   roomMinW |-> 9, roomMaxW |-> 9, roomMinH |-> 7, roomMaxH |-> 7,
   roomPad |-> 2, maxRoomAttempts |-> 1]

\* the inner result with the synthesized door added to its own collections
innerAfterDoorInPlace(d, k) ==
  [d EXCEPT !.blocked = @ \cup {k},
            !.doors = (k :> [open |-> FALSE]) @@ @,
            !.rooms[1].doorKeys = Append(@, k)]

\* the inner result d after the wrapper's doors.set(k), blocked.add(k) and
\* rooms[0].doorKeys.push(k): the three calls act on `new Map(d.doors)`,
\* `new Set(d.blocked)` and the re-mapped rooms with copied doorKeys, so d
\* keeps the members it had
innerAfterDoor(d, k) == d

\* the part of buildDefault after the inner buildDungeon call returned d
Wrap ==
  LET r0 == returned.rooms[1]
      doorCol == (r0.left + r0.right) \div 2
      doorRow == r0.bottom
      k == keyOf(doorCol, doorRow, params.z)
      door == [col |-> doorCol, row |-> doorRow, z |-> params.z]
      d == IF k \notin DOMAIN returned.doors THEN innerAfterDoor(returned, k) ELSE returned
  IN /\ call = "buildDefault"
     /\ pc = "wrap"
     /\ pc' = "done"
     /\ IF k \notin DOMAIN returned.doors
        THEN dungeon' =
               [rooms |-> [returned.rooms EXCEPT ![1].doorKeys = Append(@, k)],
                spawn |-> returned.spawn,
                floor |-> returned.floor,
                blocked |-> returned.blocked \cup {k},
                doors |-> (k :> [open |-> FALSE]) @@ returned.doors,
                walls |-> returned.walls,
                door |-> door,
                shared |-> FALSE]
        ELSE dungeon' =
               [rooms |-> returned.rooms, spawn |-> returned.spawn,
                floor |-> returned.floor, blocked |-> returned.blocked,
                doors |-> returned.doors,
                walls |-> returned.walls, door |-> door, shared |-> TRUE]
     /\ returned' = d
     /\ floor' = d.floor
     /\ blocked' = d.blocked
     /\ doors' = d.doors
     /\ walls' = d.walls
     /\ UNCHANGED <<player, world, params, call, roomCount, rooms,
                    i, a, first, conn, gaveUpAt, tried, rngState, run,
                    firstRun,
                    carved, ret>>

(***************************************************************************)
(* The input system's door toggle, run on game.dungeon                     *)
(***************************************************************************)
tileKey(col, row, z) == <<col, row, z>>

\* game.hover: col = null (has = FALSE), or a tile inside the grid: every door
\* tile of game.dungeon and, for the tiles that are no door, the spawn tile
Hovers ==
  { [has |-> TRUE, col |-> k[1], row |-> k[2], z |-> k[3]] : k \in DOMAIN dungeon.doors }
  \cup { [has |-> TRUE, col |-> dungeon.spawn.col, row |-> dungeon.spawn.row, z |-> 0] }
  \cup { [has |-> FALSE, col |-> 0, row |-> 0, z |-> 0] }

\* a toggle that leaves d.blocked as it was
reflectBlockedStale(bs, k, open) == bs

\* "reflect passability into blocked set": delete the key of an open door, add
\* the key of a closed one
reflectBlocked(bs, k, open) == IF open THEN bs \ {k} ELSE bs \cup {k}

\* tryToggleDoorAtHover(game) with game.hover = h.  game.dungeon is the object
\* the builder returned: when its collections are the builder's own objects
\* (shared) the builder's doors and blocked change with it; a door object that
\* `new Map(d.doors)` copied by reference changes in both maps.
tryToggleDoorAtHover(h) ==
  LET k == tileKey(h.col, h.row, h.z)
      open == ~dungeon.doors[k].open
      newDoors == [dungeon.doors EXCEPT ![k] = [open |-> open]]
      newBlocked == reflectBlocked(dungeon.blocked, k, open)
  IN /\ IF ~h.has \/ k \notin DOMAIN dungeon.doors
        THEN /\ ret' = [of |-> "tryToggleDoorAtHover", arg |-> h, value |-> FALSE]
             /\ UNCHANGED <<dungeon, doors, blocked>>
        ELSE /\ ret' = [of |-> "tryToggleDoorAtHover", arg |-> h, value |-> TRUE]
             /\ dungeon' = [dungeon EXCEPT !.doors = newDoors, !.blocked = newBlocked]
             /\ IF dungeon.shared
                THEN /\ doors' = newDoors
                     /\ blocked' = newBlocked
                ELSE /\ doors' = IF k \in DOMAIN doors
                                 THEN [doors EXCEPT ![k] = [open |-> open]]
                                 ELSE doors
                     /\ UNCHANGED blocked
     /\ UNCHANGED <<player, world, params, call, pc, roomCount, rooms, floor, walls, i, a,
                    first, conn, gaveUpAt, tried, returned, rngState, run, firstRun,
                    carved>>

ToggleDoor ==
  /\ pc = "done"
  /\ \E h \in Hovers : tryToggleDoorAtHover(h)

(***************************************************************************)
(* Specification of one buildDungeon call; the game that runs on the      *)
(* returned dungeon is SpecMove                                            *)
(***************************************************************************)
Next ==
  \/ PlaceFirstRoom
  \/ PlaceAttempt
  \/ LeaveRoomLoop
  \/ ConnectDoors
  \/ ConnectStepOut
  \/ ConnectPath
  \/ BuildWalls
  \/ Return

Spec == Init /\ [][Next]_vars

(***************************************************************************)
(* computeRoomCount on its own: the inputs are drawn by the initial state, *)
(* the one action applies the function.                                    *)
(***************************************************************************)
SizingLevels ==
  [playerLevel : (0 .. MaxLevel) \cup {HugeLevel},
   monsterLevel : 1 .. MaxLevel,
   difficultyLevel : (-MaxLevel .. MaxLevel) \cup HugeDifficulty]

InitSizing ==
  /\ call = "computeRoomCount"
  /\ world = MinWorld
  /\ params \in { WithKnobs(lv, DefaultKnobs) : lv \in SizingLevels }
  /\ Idle
  /\ rngState = NoRng
  /\ run = 1
  /\ firstRun = NoResult
  /\ carved = {}
  /\ ret = NoRet
  /\ player = NoPlayer

CallComputeRoomCount ==
  /\ call = "computeRoomCount"
  /\ pc = "start"
  /\ roomCount' = computeRoomCount(params.playerLevel, params.monsterLevel,
                                   params.difficultyLevel)
  /\ pc' = "counted"
  /\ UNCHANGED <<player, world, params, call, rooms, floor, blocked, doors, walls, i, a,
                 first, conn, gaveUpAt, tried, returned, dungeon, rngState, run,
                 firstRun,
                 carved, ret>>

NextSizing == CallComputeRoomCount

SpecSizing == InitSizing /\ [][NextSizing]_vars

(***************************************************************************)
(* Claims about computeRoomCount (checked under SpecSizing)                *)
(***************************************************************************)
Delta == params.playerLevel - params.monsterLevel

\* C5: computeRoomCount returns an integer of at least 3 for every integer
\* triple of levels, negative difficulty and either sign of delta included.
C5_AtLeastThree == pc = "counted" => roomCount >= 3

\* C6: raising difficultyLevel by one, the two other levels fixed, never
\* lowers computeRoomCount.
C6_Monotone ==
  pc = "counted" =>
    computeRoomCount(params.playerLevel, params.monsterLevel,
                     params.difficultyLevel + 1) >= roomCount

\* the step function and the bonus as the claim words them
ClaimedBase == IF Delta <= -4 THEN 3 ELSE IF Delta \in {-3, -2} THEN 4 ELSE 5

ClaimedBonus ==
  IF Delta >= 1
  THEN CHOOSE n \in 0 .. (Delta + 1) :
         /\ 400 * n * n >= 729 * Delta
         /\ (n = 0 \/ 400 * (n - 1) * (n - 1) < 729 * Delta)
  ELSE 0

\* C7: computeRoomCount = max(3, base(delta) + 2 * difficultyLevel + bonus(delta)),
\* bonus being the least n with 400 n^2 >= 729 delta for delta >= 1 and 0
\* otherwise; in particular (1,1,0) gives 5 and (5,1,1) gives 10.  The right
\* side is a mathematical integer and is compared limb by limb.
C7_Formula ==
  pc = "counted" =>
    /\ NumOf(roomCount) =
         NumMax(NumOf(3),
                NumAdd(NumOf(ClaimedBase + ClaimedBonus),
                       NumAdd(NumOf(params.difficultyLevel),
                              NumOf(params.difficultyLevel))))
    /\ (params.playerLevel = 1 /\ params.monsterLevel = 1
        /\ params.difficultyLevel = 0 => roomCount = 5)
    /\ (params.playerLevel = 5 /\ params.monsterLevel = 1
        /\ params.difficultyLevel = 1 => roomCount = 10)

(***************************************************************************)
(* Claims about buildDungeon (checked under Spec)                          *)
(***************************************************************************)
Returned == returned # NoResult

\* C1: in every dungeon returned by buildDungeon every entry of the door map
\* has open = false and its tile key is a member of the blocked set, however
\* many connections were carved after the door was registered.
C1_ClosedDoorsBlocked ==
  Returned =>
    \A k \in DOMAIN returned.doors :
      ~returned.doors[k].open /\ k \in returned.blocked

\* two rectangles kept apart by more than pad tiles along some axis
Apart(ra, rb, pad) ==
  \/ ra.right + pad < rb.left
  \/ rb.right + pad < ra.left
  \/ ra.bottom + pad < rb.top
  \/ rb.bottom + pad < ra.top

\* C2: any two distinct rooms of a returned dungeon do not overlap when
\* inflated by roomPad: along some axis one lies more than roomPad tiles
\* beyond the other.  The rooms placed so far during the call are held to
\* the same.
C2_RoomsApart ==
  /\ \A x, y \in 1 .. Len(rooms) :
       x # y => Apart(rooms[x], rooms[y], params.roomPad)
  /\ Returned =>
       \A x, y \in 1 .. Len(returned.rooms) :
         x # y => Apart(returned.rooms[x], returned.rooms[y], params.roomPad)

\* three rooms were returned under a positive pad, two of them closer than the
\* pad plus the largest room would force
C2_Witness ==
  /\ pc = "done"
  /\ params.roomPad = MaxPad
  /\ Len(returned.rooms) = 3
  /\ \E x, y \in 1 .. 3 :
       /\ x # y
       /\ returned.rooms[x].right + params.roomPad + 1 = returned.rooms[y].left

\* C3: once buildDungeon has returned, no later operation changes the result's
\* floor, blocked, doors or walls (the door toggle works on a copy): the
\* collections the result refers to stay as they were at the return.
\* (Checked under SpecMove, where the input system runs on the result.)
C3_ResultFrozen ==
  call = "buildDungeon" /\ pc = "done" =>
    /\ floor = returned.floor
    /\ blocked = returned.blocked
    /\ doors = returned.doors
    /\ walls = returned.walls

\* the margin test of the claim, on the size sampled for room[0]
FirstViolates ==
  LET left == ((world.w - 1) \div 2) - (first.rw \div 2)
      right == left + first.rw - 1
      top == ((world.h - 1) \div 2) - (first.rh \div 2)
      bottom == top + first.rh - 1
  IN left < 2 \/ top < 2 \/ right >= world.w - 2 \/ bottom >= world.h - 2

\* C9: buildDungeon throws exactly when the centred rectangle of the size
\* sampled for the first room violates the margin; then no result exists, and
\* in every other case the call goes on to return a result.
C9_FatalOnlyFirstRoom ==
  /\ pc = "failed" <=> (pc # "start" /\ FirstViolates)
  /\ pc = "failed" => ~Returned /\ dungeon = NoResult
  /\ pc = "done" => Returned /\ ~FirstViolates

C9_Witness == pc = "failed" /\ FirstViolates /\ first.rw > 0

\* C10: when every attempt for room i >= 1 is rejected no attempt is made for a
\* later room and the call returns exactly the i rooms placed so far; every
\* result has 1 <= rooms.length <= computeRoomCount(...), and when room 1
\* cannot be placed it has one room and an empty door map.
C10_PartialResult ==
  /\ gaveUpAt # 0 =>
       /\ \A j \in tried : j <= gaveUpAt
       /\ Len(rooms) = gaveUpAt
  /\ Returned =>
       /\ 1 <= Len(returned.rooms)
       /\ Len(returned.rooms) <= roomCount
       /\ gaveUpAt # 0 => Len(returned.rooms) = gaveUpAt
       /\ gaveUpAt = 1 => Len(returned.rooms) = 1 /\ DOMAIN returned.doors = {}

(***************************************************************************)
(* buildDefault (specification SpecDefault)                                *)
(***************************************************************************)
MaxDefaultW == 37
MaxDefaultH == 12

\* Data.DefaultWorld of the game, and the narrowest grids in which a second
\* 9x7 room fits beside the first
GameWorld == [w |-> 25, h |-> 25]
DefaultWorlds == {MinWorld, GameWorld} \cup [w : 35 .. MaxDefaultW, h : 11 .. MaxDefaultH]

InitDefault ==
  /\ call = "buildDefault"
  /\ world \in DefaultWorlds
  /\ params = DefaultCallParams
  /\ Idle
  /\ rngState = NoRng
  /\ run = 1
  /\ firstRun = NoResult
  /\ carved = {}
  /\ ret = NoRet
  /\ player = NoPlayer

NextDefault ==
  \/ PlaceFirstRoom
  \/ PlaceAttempt
  \/ LeaveRoomLoop
  \/ ConnectDoors
  \/ ConnectStepOut
  \/ ConnectPath
  \/ BuildWalls
  \/ Return
  \/ Wrap
  \/ ToggleDoor

SpecDefault == InitDefault /\ [][NextDefault]_vars

\* C8: whenever buildDefault succeeds it returns exactly one room, 9 tiles wide
\* and 7 high perimeter included, exactly one door, that door on the room's
\* bottom wall, and a floor set holding the 7x5 interior tiles of the room.
C8_DefaultDungeon ==
  call = "buildDefault" /\ pc = "done" =>
    /\ Len(dungeon.rooms) = 1
    /\ LET r == dungeon.rooms[1]
       IN /\ r.right - r.left + 1 = 9
          /\ r.bottom - r.top + 1 = 7
          /\ Cardinality(DOMAIN dungeon.doors) = 1
          /\ \A k \in DOMAIN dungeon.doors :
               k[2] = r.bottom /\ k[1] >= r.left /\ k[1] <= r.right
          /\ \A c \in (r.left + 1) .. (r.right - 1), w \in (r.top + 1) .. (r.bottom - 1) :
               <<c, w, params.z>> \in dungeon.floor
          /\ Cardinality({ <<c, w>> : c \in (r.left + 1) .. (r.right - 1),
                                      w \in (r.top + 1) .. (r.bottom - 1) }) = 35

(***************************************************************************)
(* Two calls with the same random sequence (specification SpecReplay).     *)
(* The caller supplies a seeded generator; the first call runs to its end, *)
(* the generator is rewound and buildDungeon is called again on the same   *)
(* builder with the same arguments.                                        *)
(***************************************************************************)
MaxSeed == 11

\* the supplied rng: a linear congruential generator, rng() = (s mod RngRes) / RngRes
LcgNext(s) == (37 * s + 11) % 101
Rng(s) == s % RngRes

ReplayParams ==
  { WithKnobs([playerLevel |-> 1, monsterLevel |-> 5, difficultyLevel |-> 0], k) :
      k \in SmallKnobs }
  \cup { WithKnobs([playerLevel |-> 1, monsterLevel |-> 5, difficultyLevel |-> 0],
                   LargeKnobs) }

InitReplay ==
  /\ call = "buildDungeon"
  /\ world \in Worlds
  /\ params \in ReplayParams
  /\ Idle
  /\ \E seed \in 0 .. MaxSeed : rngState = [seed |-> seed, s |-> seed]
  /\ run = 1
  /\ firstRun = NoResult
  /\ carved = {}
  /\ ret = NoRet
  /\ player = NoPlayer

\* room[0] with the two sizes drawn from the generator, in the order of the code
SeededPlaceFirst ==
  LET s1 == rngState.s
      s2 == LcgNext(s1)
  IN /\ PlaceFirstWith(randInt(Rng(s1), params.roomMinW, params.roomMaxW),
                       randInt(Rng(s2), params.roomMinH, params.roomMaxH))
     /\ rngState' = [rngState EXCEPT !.s = LcgNext(s2)]

\* one placement attempt with its four draws: rw, rh, dist, angleBucket
SeededAttempt ==
  LET s1 == rngState.s
      s2 == LcgNext(s1)
      s3 == LcgNext(s2)
      s4 == LcgNext(s3)
  IN /\ AttemptWith(randInt(Rng(s1), params.roomMinW, params.roomMaxW),
                    randInt(Rng(s2), params.roomMinH, params.roomMaxH),
                    randInt(Rng(s3), 6, 14),
                    randInt(Rng(s4), 0, 5))
     /\ rngState' = [rngState EXCEPT !.s = LcgNext(s4)]

\* the caller keeps the first outcome, rewinds the generator and calls again;
\* the collections of the first call stay where they are until the new call
\* allocates its own
CallAgain ==
  /\ call = "buildDungeon"
  /\ run = 1
  /\ pc \in {"done", "failed"}
  /\ firstRun' = IF pc = "done" THEN returned ELSE NoResult
  /\ run' = 2
  /\ pc' = "start"
  /\ rngState' = [rngState EXCEPT !.s = rngState.seed]
  /\ returned' = NoResult
  /\ dungeon' = NoResult
  /\ gaveUpAt' = 0
  /\ tried' = {}
  /\ first' = NoSize
  /\ conn' = NoConn
  /\ UNCHANGED <<player, world, params, call, roomCount, rooms, floor, blocked, doors, walls,
                 i, a, carved, ret>>

NextReplay ==
  \/ SeededPlaceFirst
  \/ SeededAttempt
  \/ LeaveRoomLoop
  \/ ConnectDoors
  \/ ConnectStepOut
  \/ ConnectPath
  \/ BuildWalls
  \/ Return
  \/ CallAgain

SpecReplay == InitReplay /\ [][NextReplay]_vars

C11_FloorBlockedOnlyDoors ==
  /\ call = "buildDungeon" => \A k \in floor \cap blocked : k \in DOMAIN doors
  /\ Returned =>
       \A k \in returned.floor \cap returned.blocked : k \in DOMAIN returned.doors

\* a dungeon was returned in which a corridor was carved through the perimeter
\* of a room, on a tile that is no door
C11_Witness ==
  /\ pc = "done"
  /\ \E k \in carved :
       /\ k \notin DOMAIN returned.doors
       /\ \E j \in 1 .. Len(returned.rooms) :
            k \in StampBlocked(returned.rooms[j], world, params.z)

\* C12: in every returned dungeon no registered door tile is a member of the
\* floor set: the router never carves a door tile.
C12_DoorsNotFloor ==
  Returned => \A k \in DOMAIN returned.doors : k \notin returned.floor

\* C13: in every returned dungeon every tile carved for a corridor (step-out
\* tiles and path tiles) is in the floor set and absent from the blocked set,
\* also when a later connection registered a door after the carving.
C13_CarvedOpen ==
  Returned => \A k \in carved : k \in returned.floor /\ k \notin returned.blocked

\* C14: a toggle whose hovered tile is a registered door flips that door's open
\* flag, leaves every other door as it was, makes the membership of the door's
\* key in blocked agree with the new flag (open: absent, closed: present),
\* changes no other blocked entry and reports true; a toggle with no hovered
\* tile or on a tile that is no door leaves the dungeon as it was and reports
\* false.  (Checked under SpecMove.)
C14_ToggleReflected ==
  [][(pc = "done" /\ ret'.of = "tryToggleDoorAtHover") =>
       LET h == ret'.arg
           k == tileKey(h.col, h.row, h.z)
       IN IF h.has /\ k \in DOMAIN dungeon.doors
          THEN /\ ret'.value = TRUE
               /\ DOMAIN dungeon'.doors = DOMAIN dungeon.doors
               /\ dungeon'.doors[k].open = ~dungeon.doors[k].open
               /\ \A j \in DOMAIN dungeon.doors \ {k} : dungeon'.doors[j] = dungeon.doors[j]
               /\ (k \in dungeon'.blocked) = ~dungeon'.doors[k].open
               /\ dungeon'.blocked \ {k} = dungeon.blocked \ {k}
          ELSE /\ ret'.value = FALSE
               /\ dungeon' = dungeon]_vars

\* a door of the running game was toggled open and its key left blocked
C14_Witness ==
  /\ pc = "done"
  /\ ret.of = "tryToggleDoorAtHover"
  /\ ret.value = TRUE
  /\ LET k == tileKey(ret.arg.col, ret.arg.row, ret.arg.z)
     IN dungeon.doors[k].open /\ k \notin dungeon.blocked

RECURSIVE NumTimes(_, _)
\* s * x for a small non-negative integer s and a two-limb Number x, by
\* doubling; the product of the model's inputs stays below 2^53 and is exact
\* in a double
NumTimes(s, x) ==
  IF s = 0 THEN NumOf(0)
  ELSE LET half == NumTimes(s \div 2, x)
           twice == NumAdd(half, half)
       IN IF s % 2 = 1 THEN NumAdd(twice, x) ELSE twice

\* s * s >= n for 1 <= s and 1 <= n < 2^31, without leaving 32 bits
SquareCovers(s, n) == (n - 1) \div s + 1 <= s

RECURSIVE CeilSqrt(_, _, _)
\* least s in lo .. hi with s * s >= n, by bisection (hi satisfies it)
CeilSqrt(n, lo, hi) ==
  IF lo >= hi THEN hi
  ELSE LET mid == (lo + hi) \div 2
       IN IF SquareCovers(mid, n) THEN CeilSqrt(n, lo, mid) ELSE CeilSqrt(n, mid + 1, hi)

\* 46341 = ceil(sqrt(2^31 - 1)), the largest side of a 32-bit room count
MaxSide == 46341

\* Math.ceil(Math.sqrt(roomCount)) for a 32-bit integer: Math.sqrt is
\* correctly rounded, exact on a perfect square and otherwise further than
\* 1/(2*46341) from an integer, so the ceiling is the mathematical one; the
\* square root of a negative count is NaN
sideOf(n) ==
  IF n < 0 THEN [nan |-> TRUE, side |-> 0]
  ELSE IF n = 0 THEN [nan |-> FALSE, side |-> 0]
  ELSE [nan |-> FALSE, side |-> CeilSqrt(n, 1, MaxSide)]

\* Math.max(15, v | 0) for v = side * cell + margin * 2; NaN | 0 is 0
worldDim(sd, cell, mrg) ==
  IF sd.nan THEN Max2(15, 0)
  ELSE Max2(15, ToInt32(NumAdd(NumTimes(sd.side, cell), NumAdd(mrg, mrg))))

estimateWorldSize(p) ==
  LET rc == computeRoomCount(p.playerLevel, p.monsterLevel, p.difficultyLevel)
      side == sideOf(rc)
      cellW == NumAdd(NumOf(p.roomMaxW), NumOf(p.corridorPad))
      cellH == NumAdd(NumOf(p.roomMaxH), NumOf(p.corridorPad))
  IN [roomCount |-> rc,
      w |-> worldDim(side, cellW, NumOf(p.margin)),
      h |-> worldDim(side, cellH, NumOf(p.margin))]

\* a room width at which side * cellW leaves 32 bits
HugeKnob == 2^30

EstimateInputs ==
  [playerLevel : {1, 5, HugeLevel},
   monsterLevel : {1, MaxLevel},
   difficultyLevel : {-1, 0, 1, 2^30 - 3, 2^30},
   roomMaxW : {0, 11, HugeKnob},
   roomMaxH : {0, 9},
   margin : {0, 6, 10},
   corridorPad : {0, 3}]

InitEstimate ==
  /\ call = "estimateWorldSize"
  /\ world = MinWorld
  /\ params \in EstimateInputs
  /\ Idle
  /\ rngState = NoRng
  /\ run = 1
  /\ firstRun = NoResult
  /\ carved = {}
  /\ ret = NoRet
  /\ player = NoPlayer

CallEstimateWorldSize ==
  /\ call = "estimateWorldSize"
  /\ pc = "start"
  /\ ret' = [of |-> "estimateWorldSize", value |-> estimateWorldSize(params)]
  /\ pc' = "estimated"
  /\ UNCHANGED <<player, world, params, call, roomCount, rooms, floor, blocked, doors, walls,
                 i, a, first, conn, gaveUpAt, tried, returned, dungeon, rngState,
                 run, firstRun, carved>>

NextEstimate == CallEstimateWorldSize

SpecEstimate == InitEstimate /\ [][NextEstimate]_vars

\* the side as the claim words it: the least integer s >= 0 with s * s >= n
ClaimedSide(n) ==
  CHOOSE s \in 0 .. MaxSide :
    IF n <= 0 THEN s = 0
    ELSE /\ s >= 1
         /\ SquareCovers(s, n)
         /\ (s = 1 \/ ~SquareCovers(s - 1, n))

ClaimedDim(side, maxKnob) ==
  NumMax(NumOf(15),
         NumAdd(NumTimes(side, NumAdd(NumOf(maxKnob), NumOf(params.corridorPad))),
                NumAdd(NumOf(params.margin), NumOf(params.margin))))

\* C16: estimateWorldSize returns roomCount = computeRoomCount(...),
\* w = max(15, side * (roomMaxW + corridorPad) + 2 * margin) and
\* h = max(15, side * (roomMaxH + corridorPad) + 2 * margin), side being the
\* least integer with side * side >= roomCount, and w and h are at least 15,
\* for all non-negative integer knobs.  The right sides are mathematical
\* integers and are compared limb by limb.
C16_EstimatedSize ==
  pc = "estimated" =>
    LET v == ret.value
        side == ClaimedSide(v.roomCount)
    IN /\ v.roomCount = computeRoomCount(params.playerLevel, params.monsterLevel,
                                         params.difficultyLevel)
       /\ v.w >= 15
       /\ v.h >= 15
       /\ NumOf(v.w) = ClaimedDim(side, params.roomMaxW)
       /\ NumOf(v.h) = ClaimedDim(side, params.roomMaxH)

\* the perimeter tiles of a room
PerimeterTiles(r) ==
  { t \in (r.left .. r.right) \X (r.top .. r.bottom) :
      t[1] = r.left \/ t[1] = r.right \/ t[2] = r.top \/ t[2] = r.bottom }

\* the unit edges between two adjacent perimeter tiles of room r neither of
\* which is one of r's door tiles, written as the segment from the left or
\* upper tile to the right or lower one
OpenEdges(r, z) ==
  { [from |-> [col |-> t[1], row |-> t[2], z |-> z],
     to |-> [col |-> u[1], row |-> u[2], z |-> z]] :
      <<t, u>> \in { e \in PerimeterTiles(r) \X PerimeterTiles(r) :
                       /\ \/ (e[2][1] = e[1][1] + 1 /\ e[2][2] = e[1][2])
                          \/ (e[2][1] = e[1][1] /\ e[2][2] = e[1][2] + 1)
                       /\ keyOf(e[1][1], e[1][2], z) \notin SeqToSet(r.doorKeys)
                       /\ keyOf(e[2][1], e[2][2], z) \notin SeqToSet(r.doorKeys) } }

\* the positions in the wall list of the segments that lie on room r
SegmentsOn(ws, r) ==
  { n \in 1 .. Len(ws) :
      /\ <<ws[n].from.col, ws[n].from.row>> \in PerimeterTiles(r)
      /\ <<ws[n].to.col, ws[n].to.row>> \in PerimeterTiles(r) }

\* C17: in every returned dungeon the wall segments of each room are exactly
\* the unit edges between adjacent perimeter tiles of the room with neither
\* endpoint in the room's doorKeys, each emitted once, and no segment of a
\* room ends on one of the room's door tiles.
C17_WallSegments ==
  Returned =>
    \A j \in 1 .. Len(returned.rooms) :
      LET r == returned.rooms[j]
          on == SegmentsOn(returned.walls, r)
      IN /\ { returned.walls[n] : n \in on } = OpenEdges(r, params.z)
         /\ Cardinality(on) = Cardinality(OpenEdges(r, params.z))
         /\ \A n \in on :
              /\ keyOf(returned.walls[n].from.col, returned.walls[n].from.row, params.z)
                   \notin SeqToSet(r.doorKeys)
              /\ keyOf(returned.walls[n].to.col, returned.walls[n].to.row, params.z)
                   \notin SeqToSet(r.doorKeys)

\* the room-size knobs buildDungeon uses when the caller gives none
DefaultSizes ==
  /\ params.roomMinW = DefaultKnobs.roomMinW
  /\ params.roomMaxW = DefaultKnobs.roomMaxW
  /\ params.roomMinH = DefaultKnobs.roomMinH
  /\ params.roomMaxH = DefaultKnobs.roomMaxH

\* C18: in every dungeon returned by buildDungeon with the default room-size
\* knobs the spawn is (rooms[0].left + 2, rooms[0].top + 2, z), lies inside
\* the grid, is an interior tile of room 0, is in the floor set and is not in
\* the blocked set.
C18_SpawnInFirstRoom ==
  (call = "buildDungeon" /\ Returned /\ DefaultSizes) =>
    LET r0 == returned.rooms[1]
        sp == returned.spawn
    IN /\ sp = [col |-> r0.left + 2, row |-> r0.top + 2, z |-> params.z]
       /\ inBounds(sp.col, sp.row, world)
       /\ r0.left < sp.col /\ sp.col < r0.right
       /\ r0.top < sp.row /\ sp.row < r0.bottom
       /\ keyOf(sp.col, sp.row, sp.z) \in returned.floor
       /\ keyOf(sp.col, sp.row, sp.z) \notin returned.blocked

\* a dungeon of two connected rooms of the default sizes was returned
C18_Witness ==
  /\ call = "buildDungeon"
  /\ Returned
  /\ DefaultSizes
  /\ Len(returned.rooms) >= 2
  /\ carved # {}

(***************************************************************************)
(* Movement on game.dungeon (specification SpecMove): the input system's   *)
(* range-limited path search and the renderer's reachable set, called on   *)
(* the dungeon the builder returned, between door toggles.                 *)
(***************************************************************************)
\* Data.DefaultWorld.levels
levels == 1

\* inBounds of coords.js
coordsInBounds(col, row, z, w) ==
  col >= 0 /\ row >= 0 /\ z >= 0 /\ col < w.w /\ row < w.h /\ z < levels

isBlocked(bs, col, row, z) == tileKey(col, row, z) \in bs

RECURSIVE PathBack(_, _, _)
\* `while (k !== startK) { path.push(k); k = parent.get(k); if (!k) break; }`
PathBack(k, parent, startK) ==
  IF k = NoKey \/ k = startK THEN <<>>
  ELSE LET up == IF k \in DOMAIN parent THEN parent[k] ELSE NoKey
       IN <<[col |-> k[1], row |-> k[2]]>> \o PathBack(up, parent, startK)

RECURSIVE MoveExpand(_, _, _, _)
\* the `for (const dir of dirs)` loop of findPathWithinRange for directions
\* d .. 6; g holds the arguments of the call; the loop ends early with the
\* reconstructed path when the target is reached
MoveExpand(g, st, cur, d) ==
  IF d > Len(Dirs) \/ st.done THEN st
  ELSE
    LET n == neighborOddR(cur.col, cur.row, Dirs[d])
        nk == tileKey(n.col, n.row, g.z)
    IN IF \/ ~inBounds(n.col, n.row, g.world)
          \/ nk \in st.visited
          \/ isBlocked(g.blocked, n.col, n.row, g.z)
       THEN MoveExpand(g, st, cur, d + 1)
       ELSE
         LET parent == (nk :> tileKey(cur.col, cur.row, g.z)) @@ st.parent
             seen == [st EXCEPT !.visited = @ \cup {nk}, !.parent = parent]
         IN IF nk = g.targetK
            THEN [seen EXCEPT !.done = TRUE,
                              !.path = Reverse(PathBack(g.targetK, parent, g.startK))]
            ELSE MoveExpand(g,
                            [seen EXCEPT !.q = Append(@, [col |-> n.col, row |-> n.row,
                                                          d |-> cur.d + 1])],
                            cur, d + 1)

\* one iteration of `while (q.length)` of findPathWithinRange
MoveVisit(g, st) ==
  LET cur == Head(st.q)
      rest == [st EXCEPT !.q = Tail(@)]
  IN IF cur.d >= g.maxSteps THEN rest ELSE MoveExpand(g, rest, cur, 1)

RECURSIVE MoveLoop(_, _, _)
\* up to n iterations of the loop, the first half of them and then the rest
MoveLoop(g, st, n) ==
  IF st.done \/ st.q = <<>> THEN st
  ELSE IF n <= 1 THEN MoveVisit(g, st)
  ELSE LET half == MoveLoop(g, st, n \div 2)
       IN IF half.done \/ half.q = <<>> THEN half
          ELSE MoveLoop(g, half, n - (n \div 2))

\* found = FALSE is the null result
findPathWithinRange(w, bs, start, target, z, maxSteps) ==
  LET g == [world |-> w, blocked |-> bs, z |-> z, maxSteps |-> maxSteps,
            startK |-> tileKey(start.col, start.row, z),
            targetK |-> tileKey(target.col, target.row, z)]
      st == MoveLoop(g,
                     [q |-> <<[col |-> start.col, row |-> start.row, d |-> 0]>>,
                      visited |-> {g.startK},
                      parent |-> <<>>,
                      done |-> FALSE,
                      path |-> <<>>],
                     w.w * w.h + 1)
  IN IF start.col = target.col /\ start.row = target.row
     THEN [found |-> TRUE, path |-> <<>>]
     ELSE IF isBlocked(bs, target.col, target.row, z)
     THEN [found |-> FALSE, path |-> <<>>]
     ELSE IF st.done /\ Len(st.path) <= maxSteps
     THEN [found |-> TRUE, path |-> st.path]
     ELSE [found |-> FALSE, path |-> <<>>]

RECURSIVE ReachExpand(_, _, _, _)
\* the direction loop of computeReachable for directions d .. 6
ReachExpand(g, st, cur, d) ==
  IF d > Len(Dirs) THEN st
  ELSE
    LET n == neighborOddR(cur.col, cur.row, Dirs[d])
        k == tileKey(n.col, n.row, g.z)
    IN IF \/ ~coordsInBounds(n.col, n.row, g.z, g.world)
          \/ k \in st.visited
          \/ isBlocked(g.blocked, n.col, n.row, g.z)
       THEN ReachExpand(g, st, cur, d + 1)
       ELSE ReachExpand(g,
                        [q |-> Append(st.q, [col |-> n.col, row |-> n.row, d |-> cur.d + 1]),
                         visited |-> st.visited \cup {k},
                         reachable |-> st.reachable \cup {k}],
                        cur, d + 1)

ReachVisit(g, st) ==
  LET cur == Head(st.q)
      rest == [st EXCEPT !.q = Tail(@)]
  IN IF cur.d >= g.range THEN rest ELSE ReachExpand(g, rest, cur, 1)

RECURSIVE ReachLoop(_, _, _)
ReachLoop(g, st, n) ==
  IF st.q = <<>> THEN st
  ELSE IF n <= 1 THEN ReachVisit(g, st)
  ELSE LET half == ReachLoop(g, st, n \div 2)
       IN IF half.q = <<>> THEN half ELSE ReachLoop(g, half, n - (n \div 2))

computeReachable(w, bs, fromCol, fromRow, range, z) ==
  LET g == [world |-> w, blocked |-> bs, z |-> z, range |-> range]
      startKey == tileKey(fromCol, fromRow, z)
  IN ReachLoop(g,
               [q |-> <<[col |-> fromCol, row |-> fromRow, d |-> 0]>>,
                visited |-> {startKey},
                reachable |-> {startKey}],
               w.w * w.h + 1).reachable

\* the movement range of a query; the player's moveRange is 2
MaxRange == 2

Opposite(dir) == IF dir = "E" THEN "W" ELSE "E"

\* the in-bounds tiles east and west of the door tiles of game.dungeon
BesideDoors ==
  { t \in { neighborOddR(k[1], k[2], dir) : k \in DOMAIN dungeon.doors, dir \in {"E", "W"} } :
      inBounds(t.col, t.row, world) }

\* a player beside a door who clicks on the door tile or on the tile across it
MoveQueries ==
  { qr \in UNION { { [start |-> neighborOddR(k[1], k[2], dir),
                      target |-> [col |-> k[1], row |-> k[2]]],
                     [start |-> neighborOddR(k[1], k[2], dir),
                      target |-> neighborOddR(k[1], k[2], Opposite(dir))] } :
                   k \in DOMAIN dungeon.doors, dir \in {"E", "W"} } :
      /\ inBounds(qr.start.col, qr.start.row, world)
      /\ inBounds(qr.target.col, qr.target.row, world) }

\* the click handler's call, with the hovered tile as target
FindPath ==
  /\ pc = "done"
  /\ \E qr \in MoveQueries :
       ret' = [of |-> "findPathWithinRange",
               arg |-> [start |-> qr.start, target |-> qr.target, maxSteps |-> MaxRange],
               value |-> findPathWithinRange(world, dungeon.blocked, qr.start, qr.target,
                                             params.z, MaxRange)]
  /\ UNCHANGED <<player, world, params, call, pc, roomCount, rooms, floor, blocked, doors,
                 walls, i, a, first, conn, gaveUpAt, tried, returned, dungeon,
                 rngState, run, firstRun, carved>>

\* the renderer's call, with the player's tile and range
Reachable ==
  /\ pc = "done"
  /\ \E start \in BesideDoors :
       ret' = [of |-> "computeReachable",
               arg |-> [start |-> start, range |-> MaxRange],
               value |-> computeReachable(world, dungeon.blocked, start.col, start.row,
                                          MaxRange, params.z)]
  /\ UNCHANGED <<player, world, params, call, pc, roomCount, rooms, floor, blocked, doors,
                 walls, i, a, first, conn, gaveUpAt, tried, returned, dungeon,
                 rngState, run, firstRun, carved>>

\* the knobs of the dungeons the movement queries run on: three small rooms
\* that may touch
MoveKnobs ==
  [roomMinW |-> 3, roomMaxW |-> 3, roomMinH |-> 3, roomMaxH |-> 3,
   roomPad |-> 0, maxRoomAttempts |-> 2]

InitMove ==
  /\ call = "buildDungeon"
  /\ world = MoveWorld
  /\ params \in { WithKnobs(lv, MoveKnobs) : lv \in {lv \in Levels : lv.difficultyLevel = 0} }
  /\ Idle
  /\ rngState = NoRng
  /\ run = 1
  /\ firstRun = NoResult
  /\ carved = {}
  /\ ret = NoRet
  /\ player = NoPlayer

NextMove ==
  \/ PlaceFirstRoom
  \/ PlaceAttempt
  \/ LeaveRoomLoop
  \/ ConnectDoors
  \/ ConnectStepOut
  \/ ConnectPath
  \/ BuildWalls
  \/ Return
  \/ ToggleDoor
  \/ FindPath
  \/ Reachable

SpecMove == InitMove /\ [][NextMove]_vars

\* the tile with key k holds a door of game.dungeon whose open flag is false
ClosedDoor(k) == k \in DOMAIN dungeon.doors /\ ~dungeon.doors[k].open

\* C19: after any sequence of door toggles on a generated dungeon, no path
\* returned by findPathWithinRange and no reachable set returned by
\* computeReachable contains the tile of a door whose open flag is false,
\* for every start tile other than that door tile and every range.
C19_ClosedDoorsImpassable ==
  /\ (ret.of = "findPathWithinRange" /\ ret.value.found) =>
       \A j \in 1 .. Len(ret.value.path) :
         LET k == tileKey(ret.value.path[j].col, ret.value.path[j].row, params.z)
         IN ClosedDoor(k) =>
              k = tileKey(ret.arg.start.col, ret.arg.start.row, params.z)
  /\ ret.of = "computeReachable" =>
       \A k \in ret.value :
         ClosedDoor(k) => k = tileKey(ret.arg.start.col, ret.arg.start.row, params.z)

(***************************************************************************)
(* bfsPath on its own (specification SpecBfs): the grid, the start and the *)
(* goal are drawn by the initial state, the one action applies the search. *)
(***************************************************************************)
BfsWorlds == {MinWorld, MoveWorld}

\* the four corners and the centre of the grid
BfsStarts(w) ==
  { [col |-> c, row |-> r] : c \in {0, w.w - 1}, r \in {0, w.h - 1} }
  \cup { [col |-> (w.w - 1) \div 2, row |-> (w.h - 1) \div 2] }

\* the border of the grid, its middle row and its middle column
BfsGoals(w) ==
  { t \in [col : 0 .. (w.w - 1), row : 0 .. (w.h - 1)] :
      \/ t.col \in {0, (w.w - 1) \div 2, w.w - 1}
      \/ t.row \in {0, (w.h - 1) \div 2, w.h - 1} }

InitBfs ==
  /\ call = "bfsPath"
  /\ world \in BfsWorlds
  /\ params = WithKnobs(CHOOSE lv \in Levels : lv.difficultyLevel = 0, DefaultKnobs)
  /\ pc = "start"
  /\ roomCount = 0
  /\ rooms = <<>>
  /\ floor = {}
  /\ blocked = {}
  /\ doors = <<>>
  /\ walls = <<>>
  /\ i = 0
  /\ a = 0
  /\ first = NoSize
  /\ \E s \in BfsStarts(world), g \in BfsGoals(world) :
       /\ s # g
       /\ conn = [NoConn EXCEPT !.start = s, !.goal = g]
  /\ gaveUpAt = 0
  /\ tried = {}
  /\ returned = NoResult
  /\ dungeon = NoResult
  /\ rngState = NoRng
  /\ run = 1
  /\ firstRun = NoResult
  /\ carved = {}
  /\ ret = NoRet
  /\ player = NoPlayer

CallBfsPath ==
  /\ call = "bfsPath"
  /\ pc = "start"
  /\ ret' = [of |-> "bfsPath",
             value |-> bfsPath(world, conn.start, conn.goal, blocked, params.z)]
  /\ pc' = "searched"
  /\ UNCHANGED <<player, world, params, call, roomCount, rooms, floor, blocked, doors, walls,
                 i, a, first, conn, gaveUpAt, tried, returned, dungeon, rngState,
                 run, firstRun, carved>>

NextBfs == CallBfsPath

SpecBfs == InitBfs /\ [][NextBfs]_vars

\* tile u is one step from tile t
OneStep(t, u) == \E dir \in SeqToSet(Dirs) : neighborOddR(t.col, t.row, dir) = u

\* C20: on a grid of at least 15x15, for in-bounds start and goal with start
\* different from goal, bfsPath does not return null: it returns a path of
\* in-bounds tiles, each one step from the one before, the first one step
\* from start and the last the goal.
C20_PathFound ==
  pc = "searched" =>
    LET path == ret.value.path
    IN /\ ret.value.found
       /\ Len(path) >= 1
       /\ path[Len(path)] = conn.goal
       /\ OneStep(conn.start, path[1])
       /\ \A j \in 1 .. Len(path) : inBounds(path[j].col, path[j].row, world)
       /\ \A j \in 1 .. (Len(path) - 1) : OneStep(path[j], path[j + 1])

\* a search from a corner of the larger grid to the opposite corner returned
C20_Witness ==
  /\ pc = "searched"
  /\ world = MoveWorld
  /\ conn.start = [col |-> 0, row |-> 0]
  /\ conn.goal = [col |-> world.w - 1, row |-> world.h - 1]
  /\ ret.value.found
  /\ Len(ret.value.path) >= world.h - 1

\* the in-bounds tiles one step from a tile of ts
StepsFrom(ts, w) ==
  { n \in { neighborOddR(t.col, t.row, dir) : t \in ts, dir \in SeqToSet(Dirs) } :
      inBounds(n.col, n.row, w) }

RECURSIVE StepsBetween(_, _, _, _, _)
\* the least number of steps over in-bounds tiles that leads from a tile at
\* distance n (the frontier) to goal, counted from the start; -1 when no
\* walk reaches it
StepsBetween(frontier, seen, goal, n, w) ==
  IF goal \in frontier THEN n
  ELSE IF frontier = {} THEN -1
  ELSE LET next == StepsFrom(frontier, w) \ seen
       IN StepsBetween(next, seen \cup next, goal, n + 1, w)

\* C21: every path bfsPath returns for start # goal leaves the start tile out,
\* ends on the goal, begins one odd-r step from the start, goes on by single
\* odd-r steps, holds only in-bounds tiles, none of them twice, and has the
\* least number of steps that leads from start to goal on the grid.
C21_ShortestPath ==
  (pc = "searched" /\ ret.value.found) =>
    LET path == ret.value.path
    IN /\ \A j \in 1 .. Len(path) : path[j] # conn.start
       /\ Len(path) >= 1
       /\ path[Len(path)] = conn.goal
       /\ OneStep(conn.start, path[1])
       /\ \A j \in 1 .. (Len(path) - 1) : OneStep(path[j], path[j + 1])
       /\ \A j \in 1 .. Len(path) : inBounds(path[j].col, path[j].row, world)
       /\ \A j, n \in 1 .. Len(path) : j # n => path[j] # path[n]
       /\ Len(path) = StepsBetween({conn.start}, {conn.start}, conn.goal, 0, world)

\* a search from the centre of the smaller grid to its lower left corner
\* returned a path that changes row and column
C21_Witness ==
  /\ pc = "searched"
  /\ world = MinWorld
  /\ conn.start = [col |-> (world.w - 1) \div 2, row |-> (world.h - 1) \div 2]
  /\ conn.goal = [col |-> 0, row |-> world.h - 1]
  /\ ret.value.found
  /\ Len(ret.value.path) > world.h - 1 - conn.start.row

(***************************************************************************)
(* bfsPath iteration by iteration (specification SpecBfsRun): one action   *)
(* per pass of the search loop and per pass of the reconstruction loop.    *)
(* ret holds the locals q, visited, parent, k and path of the call, and    *)
(* pushed, the list of every tile that was ever put on q.                  *)
(***************************************************************************)
\* the centre, a corner, and a tile beside the grid
BfsRunStarts(w) ==
  { [col |-> (w.w - 1) \div 2, row |-> (w.h - 1) \div 2],
    [col |-> 0, row |-> 0],
    [col |-> -1, row |-> 3] }

\* the centre, two corners, the tile east of the centre, and a tile outside
\* the grid, which no search reaches
BfsRunGoals(w) ==
  { [col |-> (w.w - 1) \div 2, row |-> (w.h - 1) \div 2],
    [col |-> 0, row |-> 0],
    [col |-> w.w - 1, row |-> w.h - 1],
    [col |-> ((w.w - 1) \div 2) + 1, row |-> (w.h - 1) \div 2],
    [col |-> w.w, row |-> 0] }

InitBfsRun ==
  /\ call = "bfsPath"
  /\ world = MinWorld
  /\ params = WithKnobs(CHOOSE lv \in Levels : lv.difficultyLevel = 0, DefaultKnobs)
  /\ pc = "start"
  /\ roomCount = 0
  /\ rooms = <<>>
  /\ floor = {}
  /\ blocked = {}
  /\ doors = <<>>
  /\ walls = <<>>
  /\ i = 0
  /\ a = 0
  /\ first = NoSize
  /\ \E s \in BfsRunStarts(world), g \in BfsRunGoals(world) :
       conn = [NoConn EXCEPT !.start = s, !.goal = g]
  /\ gaveUpAt = 0
  /\ tried = {}
  /\ returned = NoResult
  /\ dungeon = NoResult
  /\ rngState = NoRng
  /\ run = 1
  /\ firstRun = NoResult
  /\ carved = {}
  /\ ret = NoRet
  /\ player = NoPlayer

BfsUnchanged ==
  UNCHANGED <<player, world, params, call, roomCount, rooms, floor, blocked, doors, walls,
              i, a, first, conn, gaveUpAt, tried, returned, dungeon, rngState,
              run, firstRun, carved>>

\* entry: q = [start], visited = {startK}, parent = new Map()
BfsEnter ==
  LET startK == keyOf(conn.start.col, conn.start.row, params.z)
      startSlot == IF inBounds(conn.start.col, conn.start.row, world)
                   THEN SlotOf(startK, world) ELSE 0
  IN /\ call = "bfsPath"
     /\ pc = "start"
     /\ pc' = "search"
     /\ ret' = [of |-> "bfsPath",
                st |-> [q |-> <<conn.start>>,
                        visited |-> [j \in 1 .. (world.w * world.h) |-> j = startSlot],
                        parent |-> [j \in 1 .. (world.w * world.h) |-> NoKey],
                        found |-> FALSE],
                pushed |-> <<conn.start>>,
                k |-> NoKey,
                path |-> <<>>]
     /\ BfsUnchanged

\* one pass of `while (q.length)`
BfsStep ==
  LET st == ret.st
      after == BfsVisit(world, st, keyOf(conn.goal.col, conn.goal.row, params.z), params.z)
  IN /\ call = "bfsPath"
     /\ pc = "search"
     /\ ~st.found
     /\ st.q # <<>>
     /\ ret' = [ret EXCEPT !.st = after,
                           !.pushed = @ \o SubSeq(after.q, Len(st.q), Len(after.q))]
     /\ pc' = "search"
     /\ BfsUnchanged

\* the loop is over: `return null`, or k = goalK and the walk begins
BfsLeave ==
  LET startK == keyOf(conn.start.col, conn.start.row, params.z)
      goalK == keyOf(conn.goal.col, conn.goal.row, params.z)
  IN /\ call = "bfsPath"
     /\ pc = "search"
     /\ ret.st.found \/ ret.st.q = <<>>
     /\ IF ~HasParent(ret.st.parent, goalK, world) /\ goalK # startK
        THEN /\ pc' = "searched"
             /\ ret' = [ret EXCEPT !.path = <<>>] @@ [value |-> [found |-> FALSE, path |-> <<>>]]
        ELSE /\ pc' = "walk"
             /\ ret' = [ret EXCEPT !.k = goalK]
     /\ BfsUnchanged

\* one pass of `while (k && k !== startK)`
BfsWalkStep ==
  LET startK == keyOf(conn.start.col, conn.start.row, params.z)
      t == parseKey(ret.k)
  IN /\ call = "bfsPath"
     /\ pc = "walk"
     /\ ret.k # NoKey
     /\ ret.k # startK
     /\ ret' = [ret EXCEPT !.path = Append(@, [col |-> t.col, row |-> t.row]),
                           !.k = IF HasParent(ret.st.parent, ret.k, world)
                                 THEN ret.st.parent[SlotOf(ret.k, world)] ELSE NoKey]
     /\ pc' = "walk"
     /\ BfsUnchanged

\* `path.reverse(); return path;`
BfsReturn ==
  LET startK == keyOf(conn.start.col, conn.start.row, params.z)
  IN /\ call = "bfsPath"
     /\ pc = "walk"
     /\ ret.k = NoKey \/ ret.k = startK
     /\ pc' = "searched"
     /\ ret' = ret @@ [value |-> [found |-> TRUE, path |-> Reverse(ret.path)]]
     /\ BfsUnchanged

NextBfsRun ==
  \/ BfsEnter
  \/ BfsStep
  \/ BfsLeave
  \/ BfsWalkStep
  \/ BfsReturn

\* the call is synchronous: it runs on until it returns
SpecBfsRun == InitBfsRun /\ [][NextBfsRun]_vars /\ WF_vars(NextBfsRun)

\* no tile was put on the queue twice
PushedOnce ==
  pc \in {"search", "walk", "searched"} =>
    \A j, n \in 1 .. Len(ret.pushed) : j # n => ret.pushed[j] # ret.pushed[n]

\* the search loop goes on only while the queue holds a tile and the goal was
\* not taken from it, and what it returns agrees with the call as a whole
EndsAsSearched ==
  pc = "searched" =>
    /\ ret.st.found \/ ret.st.q = <<>>
    /\ ret.value = bfsPath(world, conn.start, conn.goal, blocked, params.z)

\* C22: bfsPath terminates for every start and goal: no tile is put on the
\* queue more than once, the search loop is over when the goal is taken from
\* the queue or the queue is empty, the walk over the parent pointers ends,
\* and the call returns.
C22_Terminates == [](PushedOnce /\ EndsAsSearched) /\ <>(pc = "searched")

\* a search for a goal outside the grid emptied the queue after every tile of
\* the grid had been on it, and returned null
C22_Witness ==
  /\ call = "bfsPath"
  /\ pc = "searched"
  /\ "pushed" \in DOMAIN ret
  /\ Len(ret.pushed) = world.w * world.h
  /\ ret.st.q = <<>>
  /\ ~ret.value.found

(***************************************************************************)
(* Rooms, doors and step-out tiles of a buildDungeon call (checked under   *)
(* Spec)                                                                   *)
(***************************************************************************)
\* the rectangle keeps two tiles between itself and every edge of the grid
KeepsMargin(r, w) ==
  r.left >= 2 /\ r.top >= 2 /\ r.right <= w.w - 3 /\ r.bottom <= w.h - 3

\* C23: every room buildDungeon accepts, the first and the later ones, keeps
\* the margin of 2 tiles from every grid edge: left >= 2, top >= 2,
\* right <= w - 3 and bottom <= h - 3, during the call and in its result.
C23_RoomsKeepMargin ==
  /\ \A j \in 1 .. Len(rooms) : KeepsMargin(rooms[j], world)
  /\ Returned => \A j \in 1 .. Len(returned.rooms) : KeepsMargin(returned.rooms[j], world)

\* a later room was accepted that lies exactly on the margin of the right
\* edge or of the bottom edge
C23_Witness ==
  /\ pc = "rooms"
  /\ Len(rooms) >= 2
  /\ \E j \in 2 .. Len(rooms) :
       rooms[j].right = world.w - 3 \/ rooms[j].bottom = world.h - 3

\* the door tile d of room r for a connection toward the tile t, as the claim
\* places it
DoorAsClaimed(r, d, t) ==
  LET dc == t.col - ((r.left + r.right) \div 2)
      dr == t.row - ((r.top + r.bottom) \div 2)
  IN /\ <<d.col, d.row>> \in PerimeterTiles(r)
     /\ ~(d.col \in {r.left, r.right} /\ d.row \in {r.top, r.bottom})
     /\ IF Abs(dc) >= Abs(dr)
        THEN /\ d.col = IF dc >= 0 THEN r.right ELSE r.left
             /\ r.top + 1 <= d.row /\ d.row <= r.bottom - 1
        ELSE /\ d.row = IF dr >= 0 THEN r.bottom ELSE r.top
             /\ r.left + 1 <= d.col /\ d.col <= r.right - 1

\* C24: for every connection, each chosen door tile lies on the perimeter of
\* its own room and on no corner: on the right (dc >= 0) or left wall at a row
\* within [top+1, bottom-1] when |dc| >= |dr|, else on the bottom (dr >= 0) or
\* top wall at a column within [left+1, right-1]; dc, dr being the
\* displacement from the room's centre to the other room's centre.
C24_DoorOnOwnWall ==
  (Building /\ pc \in {"stepout", "path"}) =>
    /\ DoorAsClaimed(rooms[i], conn.aDoorPos, rectCenter(rooms[i + 1]))
    /\ DoorAsClaimed(rooms[i + 1], conn.bDoorPos, rectCenter(rooms[i]))

\* the step-out tile s of the door tile d of room r: inside the grid, outside
\* the rectangle of r, one step from d, floor and not blocked
StepOutOpen(r, d, s) ==
  /\ s.col >= 0 /\ s.row >= 0 /\ s.col < world.w /\ s.row < world.h
  /\ s.col < r.left \/ s.col > r.right \/ s.row < r.top \/ s.row > r.bottom
  /\ OneStep(d, s)
  /\ keyOf(s.col, s.row, params.z) \in floor
  /\ keyOf(s.col, s.row, params.z) \notin blocked

\* C25: for every connection, each step-out tile is in bounds, lies outside
\* its room's rectangle, is one odd-r step from its door tile, and is in the
\* floor set and not in the blocked set once the two step-out tiles are carved
\* and still so when the connection has been processed, whatever the path
\* search returned.
C25_StepOutCarved ==
  /\ (Building /\ pc = "path") =>
       /\ StepOutOpen(rooms[i], conn.aDoorPos, conn.start)
       /\ StepOutOpen(rooms[i + 1], conn.bDoorPos, conn.goal)
  /\ (Building /\ pc = "connect" /\ i >= 2) =>
       /\ StepOutOpen(rooms[i - 1], conn.aDoorPos, conn.start)
       /\ StepOutOpen(rooms[i], conn.bDoorPos, conn.goal)

\* a connection was processed whose step-out tile lies on the perimeter of a
\* room, where stampRoom had blocked it
C25_Witness ==
  /\ pc = "connect"
  /\ i >= 2
  /\ \E j \in 1 .. Len(rooms) :
       keyOf(conn.goal.col, conn.goal.row, params.z) \in StampBlocked(rooms[j], world, params.z)

(***************************************************************************)
(* The walls of the dungeon buildDefault returns (checked under            *)
(* SpecDefault)                                                            *)
(***************************************************************************)
\* C26: in every dungeon buildDefault returns, the one with a bottom-wall door
\* synthesized by the wrapper included, no wall segment of room 0 has an
\* endpoint on a door tile of room 0.
C26_DefaultWallGap ==
  (call = "buildDefault" /\ pc = "done") =>
    LET r0 == dungeon.rooms[1]
    IN \A n \in SegmentsOn(dungeon.walls, r0) :
         /\ keyOf(dungeon.walls[n].from.col, dungeon.walls[n].from.row, params.z)
              \notin SeqToSet(r0.doorKeys)
         /\ keyOf(dungeon.walls[n].to.col, dungeon.walls[n].to.row, params.z)
              \notin SeqToSet(r0.doorKeys)

(***************************************************************************)
(* Opening the doors of a generated dungeon (specification SpecOpen):      *)
(* buildDungeon with roomPad >= 2, then door toggles on the result.        *)
(***************************************************************************)
\* small rooms on the grid with room for three of them, rooms of the default
\* sizes on the grid with room for two
OpenParams(w) ==
  IF w = MoveWorld
  THEN { WithKnobs(lv, k) : lv \in Levels, k \in { n \in SmallKnobs : n.roomPad >= 2 } }
  ELSE { WithKnobs(lv, [DefaultKnobs EXCEPT !.maxRoomAttempts = MaxAttempts]) : lv \in Levels }

InitOpen ==
  /\ call = "buildDungeon"
  /\ world \in {MoveWorld, WideWorld}
  /\ params \in OpenParams(world)
  /\ Idle
  /\ rngState = NoRng
  /\ run = 1
  /\ firstRun = NoResult
  /\ carved = {}
  /\ ret = NoRet
  /\ player = NoPlayer

NextOpen ==
  \/ PlaceFirstRoom
  \/ PlaceAttempt
  \/ LeaveRoomLoop
  \/ ConnectDoors
  \/ ConnectStepOut
  \/ ConnectPath
  \/ BuildWalls
  \/ Return
  \/ ToggleDoor

SpecOpen == InitOpen /\ [][NextOpen]_vars

RECURSIVE Flood(_, _, _, _)
\* the tiles a walk from the frontier reaches by odd-r steps onto in-bounds
\* tiles whose key is not in bs, together with the tiles seen so far
Flood(frontier, seen, bs, w) ==
  IF frontier = {} THEN seen
  ELSE LET next == { n \in StepsFrom(frontier, w) :
                       keyOf(n.col, n.row, params.z) \notin bs } \ seen
       IN Flood(next, seen \cup next, bs, w)

AllOpen == \A k \in DOMAIN dungeon.doors : dungeon.doors[k].open

\* the interior tiles of every room of game.dungeon
Interiors ==
  UNION { { [col |-> c, row |-> r] : c \in (dungeon.rooms[j].left + 1) .. (dungeon.rooms[j].right - 1),
                                     r \in (dungeon.rooms[j].top + 1) .. (dungeon.rooms[j].bottom - 1) } :
          j \in 1 .. Len(dungeon.rooms) }

SizedParams ==
  { WithKnobs(lv, k) : lv \in Levels, k \in SmallKnobs }
  \cup { WithKnobs(lv, k) :
           lv \in { n \in Levels : n.difficultyLevel >= 2^30 },
           k \in {LargeKnobs, [DefaultKnobs EXCEPT !.maxRoomAttempts = MaxAttempts]} }

\* estimateWorldSize({...levels, ...knobs}): margin = 6, corridorPad = 3
estimateFor(p) ==
  estimateWorldSize([playerLevel |-> p.playerLevel, monsterLevel |-> p.monsterLevel,
                     difficultyLevel |-> p.difficultyLevel,
                     roomMaxW |-> p.roomMaxW, roomMaxH |-> p.roomMaxH,
                     margin |-> 6, corridorPad |-> 3])

InitSized ==
  /\ call = "buildDungeon"
  /\ params \in SizedParams
  /\ world = [w |-> estimateFor(params).w, h |-> estimateFor(params).h]
  /\ Idle
  /\ rngState = NoRng
  /\ run = 1
  /\ firstRun = NoResult
  /\ carved = {}
  /\ ret = NoRet
  /\ player = NoPlayer

NextSized ==
  \/ PlaceFirstRoom
  \/ PlaceAttempt
  \/ LeaveRoomLoop
  \/ ConnectDoors
  \/ ConnectStepOut
  \/ ConnectPath
  \/ BuildWalls
  \/ Return

SpecSized == InitSized /\ [][NextSized]_vars

\* C28: on a world with the w and h estimateWorldSize returns for the same
\* levels and room-size knobs, buildDungeon never raises the first-room
\* error, whatever the rng returns.
C28_SizedNeverFatal == pc # "failed"

(***************************************************************************)
(* The input system on the running game (specification SpecInput)          *)
(***************************************************************************)
\* state.moveRange of the player spawnPlayer creates
moveRange == 2

\* _moveStepDelay = 0.10 s, in units of 0.05 s
StepDelay == 2

\* the frame times dt handed to update, in the same units, 0 .. MaxDt
MaxDt == 1
Dts == 0 .. MaxDt

\* tryMovePlayer without its isBlocked test
tryMovePlayerThroughWalls(p, dir, w, bs) ==
  LET n == neighborOddR(p.col, p.row, dir)
  IN IF Len(p.movePath) > 0 THEN p
     ELSE IF ~inBounds(n.col, n.row, w) THEN p
     ELSE [p EXCEPT !.col = n.col, !.row = n.row]

\* tryMovePlayer(game, dir): the player after the call
tryMovePlayer(p, dir, w, bs) ==
  LET n == neighborOddR(p.col, p.row, dir)
  IN IF Len(p.movePath) > 0 THEN p
     ELSE IF ~inBounds(n.col, n.row, w) THEN p
     ELSE IF isBlocked(bs, n.col, n.row, p.z) THEN p
     ELSE [p EXCEPT !.col = n.col, !.row = n.row]

\* a click handler that never takes itself for busy
clickBusyNever(p) == FALSE

\* "If currently auto-moving, ignore clicks"
clickBusy(p) == Len(p.movePath) > 0

\* InputSystem.update(game, dt): the player after the call
update(p, bs, dt) ==
  LET timer == p.timer - dt
      next == Head(p.movePath)
      stepped == IF ~isBlocked(bs, next.col, next.row, p.z)
                 THEN [p EXCEPT !.col = next.col, !.row = next.row,
                                !.movePath = Tail(p.movePath)]
                 ELSE [p EXCEPT !.movePath = <<>>]
  IN IF Len(p.movePath) = 0 THEN p
     ELSE IF timer > 0 THEN [p EXCEPT !.timer = timer]
     ELSE [stepped EXCEPT !.timer = IF Len(stepped.movePath) = 0 THEN 0 ELSE StepDelay]

\* what the events of the input system leave alone: the builder's locals
InputUnchanged ==
  UNCHANGED <<world, params, call, pc, roomCount, rooms, floor, blocked, doors,
              walls, i, a, first, conn, gaveUpAt, tried, returned, dungeon,
              rngState, run, firstRun, carved>>

\* main.js: game.spawnPlayer at the tile above the door buildDefault reports
SpawnPlayer ==
  /\ call = "buildDefault"
  /\ pc = "done"
  /\ player = NoPlayer
  /\ player' = [col |-> dungeon.door.col, row |-> dungeon.door.row - 1, z |-> 0,
                movePath |-> <<>>, timer |-> 0]
  /\ UNCHANGED ret
  /\ InputUnchanged

\* a keydown event with a movement key
KeyDown ==
  /\ call = "buildDefault"
  /\ pc = "done"
  /\ player # NoPlayer
  /\ \E dir \in {"E", "W", "NE", "NW", "SE", "SW"} :
       player' = tryMovePlayer(player, dir, world, dungeon.blocked)
  /\ ret' = [of |-> "tryMovePlayer"]
  /\ InputUnchanged

\* game.hover at a click: no tile, the door buildDefault reports, and the
\* tiles above and below that door
ClickHovers ==
  { [has |-> FALSE, col |-> 0, row |-> 0, z |-> 0] } \cup
  { h \in { [has |-> TRUE, col |-> dungeon.door.col, row |-> dungeon.door.row + dr, z |-> 0] :
            dr \in {-2, -1, 0, 1} } : inBounds(h.col, h.row, world) }

\* the move routing of the click handler, reached when the hover is no door
clickMove(p, h, w, bs) ==
  LET path == findPathWithinRange(w, bs, [col |-> p.col, row |-> p.row],
                                  [col |-> h.col, row |-> h.row], p.z, moveRange)
  IN IF ~h.has THEN p
     ELSE IF ~path.found THEN p
     ELSE [p EXCEPT !.movePath = path.path, !.timer = 0]

\* a click event on the top canvas with game.hover = h
Click ==
  /\ call = "buildDefault"
  /\ pc = "done"
  /\ player # NoPlayer
  /\ \E h \in ClickHovers :
       IF clickBusy(player)
       THEN /\ ret' = [of |-> "click"]
            /\ UNCHANGED player
            /\ InputUnchanged
       ELSE IF h.has /\ tileKey(h.col, h.row, h.z) \in DOMAIN dungeon.doors
       THEN tryToggleDoorAtHover(h)
       ELSE /\ ret' = [of |-> "click"]
            /\ player' = clickMove(player, h, world, dungeon.blocked)
            /\ InputUnchanged

\* one frame of the game loop: InputSystem.update(game, dt)
Tick ==
  /\ call \in {"buildDefault", "update"}
  /\ pc = "done"
  /\ player # NoPlayer
  /\ \E dt \in Dts :
       /\ player' = update(player, dungeon.blocked, dt)
       /\ ret' = [of |-> "update", arg |-> dt]
  /\ InputUnchanged

\* the game of main.js on Data.DefaultWorld and on a grid where a second room
\* fits
InputWorlds == {GameWorld, [w |-> 35, h |-> 11]}

InitGame ==
  /\ call = "buildDefault"
  /\ world \in InputWorlds
  /\ params = DefaultCallParams
  /\ Idle
  /\ rngState = NoRng
  /\ run = 1
  /\ firstRun = NoResult
  /\ carved = {}
  /\ ret = NoRet
  /\ player = NoPlayer

\* update on its own, called on a game whose player walks a path of two tiles
\* and whose dungeon changed after the path was assigned: any of the two
\* tiles may be blocked by now
WalkTiles == <<[col |-> 1, row |-> 0], [col |-> 2, row |-> 0]>>
WalkedGames ==
  [blocked : SUBSET { tileKey(WalkTiles[n].col, WalkTiles[n].row, 0) : n \in 1 .. 2 },
   movePath : {WalkTiles, Tail(WalkTiles)},
   timer : 0 .. StepDelay]

InitUpdate ==
  /\ call = "update"
  /\ world = GameWorld
  /\ params = DefaultCallParams
  /\ \E g \in WalkedGames :
       /\ dungeon = [rooms |-> <<>>, spawn |-> NoTile, floor |-> {}, blocked |-> g.blocked,
                     doors |-> <<>>, walls |-> <<>>, door |-> NoTile, shared |-> FALSE]
       /\ player = [col |-> g.movePath[1].col - 1, row |-> 0, z |-> 0,
                    movePath |-> g.movePath, timer |-> g.timer]
  /\ pc = "done"
  /\ roomCount = 0
  /\ rooms = <<>>
  /\ floor = {}
  /\ blocked = {}
  /\ doors = <<>>
  /\ walls = <<>>
  /\ i = 0
  /\ a = 0
  /\ first = NoSize
  /\ conn = NoConn
  /\ gaveUpAt = 0
  /\ tried = {}
  /\ returned = NoResult
  /\ rngState = NoRng
  /\ run = 1
  /\ firstRun = NoResult
  /\ carved = {}
  /\ ret = NoRet

InitInput == InitGame \/ InitUpdate

NextInput ==
  \/ PlaceFirstRoom
  \/ PlaceAttempt
  \/ LeaveRoomLoop
  \/ ConnectDoors
  \/ ConnectStepOut
  \/ ConnectPath
  \/ BuildWalls
  \/ Return
  \/ Wrap
  \/ SpawnPlayer
  \/ KeyDown
  \/ Click
  \/ Tick

SpecInput == InitInput /\ [][NextInput]_vars

\* the step is an auto-walk step of update whose next tile is blocked
BlockedWalkStep ==
  /\ ret'.of = "update"
  /\ Len(player.movePath) > 0
  /\ player.timer - ret'.arg <= 0
  /\ isBlocked(dungeon.blocked, Head(player.movePath).col, Head(player.movePath).row,
               player.z)

\* C29: every change of the player's position by tryMovePlayer or by update
\* puts the player on a tile inside the grid that is not in the blocked set
\* at the moment of the move, and an auto-walk step whose next tile is blocked
\* leaves the position as it was and empties the path.
C29_MovesOntoFree ==
  [][ /\ ( /\ player # NoPlayer
           /\ <<player'.col, player'.row>> # <<player.col, player.row>> )
         => /\ ret'.of \in {"tryMovePlayer", "update"}
            /\ inBounds(player'.col, player'.row, world)
            /\ ~isBlocked(dungeon.blocked, player'.col, player'.row, player'.z)
            /\ dungeon' = dungeon
      /\ BlockedWalkStep
         => /\ <<player'.col, player'.row>> = <<player.col, player.row>>
            /\ player'.movePath = <<>> ]_vars

\* update has just cancelled a walk of two tiles at its first, blocked, tile
C29_Witness ==
  /\ ret.of = "update"
  /\ player.movePath = <<>>
  /\ <<player.col, player.row>> = <<0, 0>>
  /\ isBlocked(dungeon.blocked, 1, 0, 0)

\* C30: while state.movePath is not empty a key move or a click changes
\* neither the player nor the dungeon, and no step assigns a new path or
\* toggles a door: the path only loses its head or is emptied, under every
\* interleaving of key, click and tick events.
C30_BusyIgnoresInput ==
  [][ (player # NoPlayer /\ Len(player.movePath) > 0)
      => /\ dungeon' = dungeon
         /\ player'.movePath \in {player.movePath, Tail(player.movePath), <<>>}
         /\ ret'.of \in {"click", "tryMovePlayer", "tryToggleDoorAtHover"}
            => player' = player ]_vars

\* a click arrived in the middle of a walk of two tiles and the walk goes on
C30_Witness ==
  /\ ret.of = "click"
  /\ Len(player.movePath) = 1
  /\ tileKey(player.col, player.row, player.z) \in DOMAIN dungeon.doors

====
